---- MODULE Spec2Model ----
(***************************************************************************)
(* Model of the chat backend: the chat-request ledger (sendRequest,        *)
(* respondRequest, cancelRequest) running as concurrent request handlers   *)
(* against the relational store, and the real-time room layer             *)
(* (socket.io rooms, chat:join / chat:leave / chat:send_message).          *)
(***************************************************************************)
EXTENDS Integers, Sequences, FiniteSets, TLC

NULL == "null"
None == 0 - 1

\* ---------------------------------------------------------------------
\* Bounds of the model
\* ---------------------------------------------------------------------
MaxRequests == 2
MaxChats == 2
MaxTicks == 2
MaxMembers == 2
MaxRooms == 1
MaxMessages == 1
MaxTokens == 3
MaxAuthTicks == 2
MaxDeliveries == 3
TickMs == 604800000

Users == {"u1", "u2"}
Procs == {"h1", "h2"}
Conns == {"s1", "s2", "s3"}
Reasons == {NULL, "not now"}

ReqIds == 1..MaxRequests
ChatIds == 1..MaxChats
RoomIds == 1..MaxRooms
MessageIds == 1..MaxMessages

\* ---------------------------------------------------------------------
\* Program constants
\* ---------------------------------------------------------------------
COOLDOWN_MS == 7 * 24 * 60 * 60 * 1000
REFRESH_TOKEN_EXPIRES_DAYS == 30
REFRESH_ROTATE_THRESHOLD_DAYS == 7
ContentMin == 1
ContentMax == 5000

VARIABLES
    requests,      \* table chat_requests: id -> row or NULL
    nextReq,       \* next fresh chat_requests.id (gen_random_uuid)
    chats,         \* table chats: set of rows
    chat_members,  \* table chat_members: set of rows
    last_read_message_id,  \* column of chat_members: chat -> user -> message
    now,           \* wall clock, milliseconds
    pc,            \* per handler: position in the running service call
    call,          \* per handler: arguments of the running call
    row,           \* per handler: the row read by findById
    tx,            \* per handler: uncommitted writes of its transaction
    last,          \* response returned by the latest step (NoRes if none)
    okResponds,    \* history: id -> number of respond calls that succeeded
    blockedPairs,  \* history: pairs whose request was answered with block
    cancelled,     \* history: <<sender, receiver>> of the request deleted by
                   \* the call that ended last, if that was a cancelRequest
    sockets,       \* live connections: socket id -> NULL or socket data
    rooms,         \* socket id -> set of rooms joined
    inbox,         \* socket id -> events emitted to it by the last handler
    awaiting,      \* socket id -> the handler of its suspended at an await
    pool,          \* databases/postgres: the module's pool (NULL or "pool")
    txn,           \* per caller: its running withTransaction call
    eventHandlers, \* lib/websocket: Map event name -> handler (NULL if none)
    listeners,     \* per socket: open or not, and the listeners attached
                   \* to it when it connected
    registry,      \* history: per event the handler of the latest on(), the
                   \* handler taken out by the latest off(); per socket the
                   \* latest registrations at the time it connected
    wsOut,         \* what the latest registry call or client event did
    refresh_tokens,\* table refresh_tokens: token (by its hash) -> row
    nextTok,       \* the next refresh token signed (fresh jti)
    rt,            \* per caller: its running rotateRefreshTokenIfNeeded call
    rotations,     \* history: token -> calls that returned rotated = true
    authOut,       \* what the latest ended token call returned or threw
    nowSec,        \* wall clock of the token service in seconds, the unit
                   \* of the exp claim (the ledger's clock now does not
                   \* move while the token service is looked at)
    channel,       \* lib/rabbitmq: the module's channel (NULL or "channel")
    consumer,      \* the options of the consumer registered by consume()
    msgs,          \* the messages of the queue: id -> delivery record
    nextMsg        \* the id of the next message to arrive in the queue

ledgerVars == <<requests, nextReq, now, pc, call, row, tx,
               okResponds, blockedPairs, cancelled>>
storeVars == <<chats, chat_members, last_read_message_id>>
rtVars == <<sockets, rooms, inbox, awaiting>>
txVars == <<pool, txn>>
regVars == <<eventHandlers, listeners, registry, wsOut>>
authVars == <<refresh_tokens, nextTok, rt, rotations, authOut, nowSec>>
mqVars == <<channel, consumer, msgs, nextMsg>>
libVars == <<txVars, regVars, authVars, mqVars>>
vars == <<requests, nextReq, chats, chat_members, last_read_message_id,
          now, pc, call, row, tx, last, okResponds, blockedPairs, cancelled,
          sockets, rooms, inbox, awaiting, pool, txn,
          eventHandlers, listeners, registry, wsOut,
          refresh_tokens, nextTok, rt, rotations, authOut, nowSec,
          channel, consumer, msgs, nextMsg>>

\* ---------------------------------------------------------------------
\* Relational store: queries
\* ---------------------------------------------------------------------
\* "no row" (a query returning null) and "no chat"
NoRow ==
    [id |-> None, sender_id |-> NULL, receiver_id |-> NULL, status |-> "none",
     responded_at |-> None, rejected_reason |-> NULL, cooldown_until |-> None]
NoChat == [id |-> None, type |-> NULL, created_by |-> NULL]

Pair(a, b) == {a, b}

Between(r, a, b) ==
    \/ (r.sender_id = a /\ r.receiver_id = b)
    \/ (r.sender_id = b /\ r.receiver_id = a)

findById(id) == requests[id]

findPendingBetween(a, b) ==
    {id \in ReqIds : requests[id] # NoRow
                     /\ Between(requests[id], a, b)
                     /\ requests[id].status = "pending"}

hasActiveRejectedCooldown(s, r) ==
    \E id \in ReqIds :
        /\ requests[id] # NoRow
        /\ requests[id].sender_id = s
        /\ requests[id].receiver_id = r
        /\ requests[id].status = "rejected"
        /\ requests[id].cooldown_until # None
        /\ requests[id].cooldown_until > now

hasPrivateChatBetween(a, b) ==
    \E c \in chats :
        /\ c.type = "private"
        /\ \E m1 \in chat_members : m1.chat_id = c.id /\ m1.user_id = a
        /\ \E m2 \in chat_members : m2.chat_id = c.id /\ m2.user_id = b

\* a store without the pair index: no insert conflicts
NoIndex_pair_unique(s, r) == FALSE

\* unique index chat_requests_pair_unique on (LEAST(s,r), GREATEST(s,r)):
\* any stored row of the unordered pair, whatever its status, conflicts

chat_requests_pair_unique(s, r) ==
    \E id \in ReqIds : requests[id] # NoRow /\ Between(requests[id], s, r)

NewRow(id, s, r) ==
    [id |-> id, sender_id |-> s, receiver_id |-> r, status |-> "pending",
     responded_at |-> None, rejected_reason |-> NULL, cooldown_until |-> None]

\* an UPDATE that writes cooldown_until only when one is given
updateStatusWithClient_KeepCooldown(r, status, begin, reason, cooldown) ==
    [r EXCEPT !.status = status, !.responded_at = begin,
              !.rejected_reason = reason,
              !.cooldown_until = IF cooldown = None THEN @ ELSE cooldown]

\* UPDATE chat_requests SET status, responded_at = current_timestamp,
\* rejected_reason, cooldown_until WHERE id = $4
\* (current_timestamp is the start time of the transaction)
updateStatusWithClient(r, status, begin, reason, cooldown) ==
    [r EXCEPT !.status = status, !.responded_at = begin,
              !.rejected_reason = reason, !.cooldown_until = cooldown]

\* ---------------------------------------------------------------------
\* Handler-local state
\* ---------------------------------------------------------------------
NoCall == [name |-> NULL, a |-> NULL, b |-> NULL, id |-> None,
           accept |-> FALSE]
NoTx == [begin |-> None, chat |-> NoChat, members |-> {}]
\* ---------------------------------------------------------------------
\* REST failures: HttpError, utils/response, middleware/errorHandler
\* ---------------------------------------------------------------------
NoErr == [http |-> FALSE, status |-> None, code |-> NULL, message |-> NULL]

\* new HttpError(status, code, message): super(message ?? code ?? 'error')
HttpError(status, code, message) ==
    [http |-> TRUE, status |-> status, code |-> code,
     message |-> IF message # NULL THEN message
                 ELSE IF code # NULL THEN code ELSE "error"]

\* an error that is no HttpError: what the pg driver throws
DatabaseError(message) ==
    [http |-> FALSE, status |-> None, code |-> NULL, message |-> message]

\* the error with which a call of the request ledger ends
Thrown(name, kind) ==
    CASE name = "sendRequest" /\ kind = "INVALID_REQUEST" ->
            HttpError(400, kind, "Cannot send request to self")
      [] name = "sendRequest" /\ kind = "CHAT_EXISTS" ->
            HttpError(409, kind, "A chat already exists between these users")
      [] name = "sendRequest" /\ kind = "COOLDOWN_ACTIVE" ->
            HttpError(403, kind,
                      "You can send a new request after cooldown period")
      [] name = "sendRequest" /\ kind = "REQUEST_EXISTS" ->
            HttpError(409, kind,
                      "A pending request already exists between these users")
      [] name = "respondRequest" /\ kind = "NOT_FOUND" ->
            HttpError(404, kind, "Chat request not found")
      [] name = "respondRequest" /\ kind = "ALREADY_RESPONDED" ->
            HttpError(400, kind, "Request already responded")
      [] name = "cancelRequest" /\ kind = "NOT_FOUND" ->
            HttpError(404, kind, "Chat request not found")
      [] name = "cancelRequest" /\ kind = "FORBIDDEN" ->
            HttpError(403, kind, "Only sender can cancel request")
      [] name = "cancelRequest" /\ kind = "ALREADY_RESPONDED" ->
            HttpError(400, kind, "Cannot cancel responded request")
      [] name = "cancelRequest" /\ kind = "DELETE_FAILED" ->
            HttpError(500, kind, "Failed to cancel request")
      [] kind = "STORAGE_ERROR" ->
            DatabaseError("duplicate key value violates unique constraint")
      [] OTHER -> NoErr

\* the error with which chatService.createChat ends
ThrownByChat(kind) ==
    CASE kind = "INVALID_INPUT" ->
            HttpError(400, kind, "member_ids required")
      [] kind = "STORAGE_ERROR" ->
            DatabaseError("duplicate key value violates unique constraint")
      [] OTHER -> NoErr

NoData == [message |-> NULL]
NoResponse == [status |-> None,
               body |-> [message |-> NULL, success |-> FALSE,
                         data |-> NoData]]

\* createBaseResponse: data ?? null (the timestamp is left out)
createBaseResponse(message, success, data) ==
    [message |-> message, success |-> success, data |-> data]

\* res.status(status).json(createBaseResponse(message, false, data))
sendError(status, message, data) ==
    [status |-> status, body |-> createBaseResponse(message, FALSE, data)]

\* the message of every error goes into the response
errorHandler_Leaky(err) ==
    IF err.http
    THEN sendError(err.status, IF err.code = NULL THEN "error" ELSE err.code,
                   [message |-> err.message])
    ELSE sendError(500, "internal_error", [message |-> err.message])

\* errorHandler: an HttpError answers with its status, code and message,
\* anything else with 500 internal_error and no data
errorHandler(err) ==
    IF err.http
    THEN sendError(err.status, IF err.code = NULL THEN "error" ELSE err.code,
                   [message |-> err.message])
    ELSE sendError(500, "internal_error", NoData)

\* the response of a call that ended with err: the route handler's promise
\* rejects and the error reaches errorHandler
Reply(err) == IF err = NoErr THEN NoResponse ELSE errorHandler(err)

\* the answers sent by loadChatRequest and the respond route themselves
RouteReply(kind) ==
    CASE kind = "NOT_FOUND" -> sendError(404, "not_found", NoData)
      [] kind = "FORBIDDEN" -> sendError(403, "forbidden", NoData)
      [] OTHER -> NoResponse

NoRes == [name |-> NULL, kind |-> NULL, step |-> NULL, a |-> NULL, b |-> NULL,
          id |-> None, accept |-> FALSE, request |-> NoRow, chat |-> None,
          cancelled |-> {}, left |-> {}, res |-> NoResponse]

Outcome(p, kind, request, chat) ==
    [name |-> call[p].name, kind |-> kind, step |-> pc[p],
     a |-> call[p].a, b |-> call[p].b, id |-> call[p].id,
     accept |-> call[p].accept,
     request |-> request, chat |-> chat,
     cancelled |-> cancelled, left |-> {},
     res |-> IF pc[p] = "r_load" THEN RouteReply(kind)
             ELSE Reply(Thrown(call[p].name, kind))]

\* the call of p ends: the handler is idle again and its response returned
Finish(p, kind, request, chat) ==
    /\ pc' = [pc EXCEPT ![p] = "idle"]
    /\ last' = Outcome(p, kind, request, chat)
    /\ call' = [call EXCEPT ![p] = NoCall]
    /\ row' = [row EXCEPT ![p] = NoRow]
    /\ tx' = [tx EXCEPT ![p] = NoTx]
    /\ cancelled' = IF call[p].name = "cancelRequest" /\ kind = "ok"
                    THEN {<<row[p].sender_id, row[p].receiver_id>>}
                    ELSE {}

Goto(p, label) ==
    /\ pc' = [pc EXCEPT ![p] = label]
    /\ last' = NoRes
    /\ call' = call
    /\ cancelled' = cancelled

\* a socket slot with no live connection
NoSocket == [connected |-> FALSE, sub |-> NULL, userId |-> NULL]
NoEvent == [event |-> NULL, of |-> NULL, chatId |-> None, userId |-> NULL,
            isTyping |-> NULL, messageId |-> None, count |-> None]
\* no handler of the socket is suspended
NoTask == [event |-> NULL, chatId |-> None]

\* a caller that is not inside withTransaction
NoTxn == [pc |-> "idle", log |-> <<>>, released |-> 0, fn |-> NULL,
          result |-> NULL, err |-> NULL, rollback |-> NULL,
          out |-> NULL, thrown |-> NULL]

\* refresh tokens: the tokens signed so far, and one whose row is not in
\* the table
TokenIds == 1..MaxTokens
Rowless == 0
NoTokenRow == [stored |-> FALSE, user_id |-> NULL, expires_at |-> None,
               revoked |-> FALSE]
NoRt == [pc |-> "idle", token |-> None, wasRevoked |-> FALSE, sub |-> NULL]
NoAuthOut == [op |-> NULL, token |-> None, verified |-> FALSE,
              wasRevoked |-> FALSE, sub |-> NULL, kind |-> NULL,
              rotated |-> NULL, newToken |-> None]

\* the queue: message ids, what a message body may be, and a message
\* that has not arrived
MsgIds == 1..MaxDeliveries
Bodies == {"json", "garbage"}
NoMsg == [state |-> "none", body |-> NULL, noAck |-> FALSE, outcome |-> NULL,
          acks |-> 0, nacks |-> 0, requeued |-> FALSE, connected |-> FALSE]
NoConsumer == [registered |-> FALSE, noAck |-> FALSE, prefetch |-> 0]

\* the events and handler functions given to on()
EventNames == {"chat:join", "chat:typing"}
HandlerFns == {"f1", "f2"}
NoHandlers == [e \in EventNames |-> NULL]
NoListeners == [open |-> FALSE, attached |-> {}]
NoWsOut == [op |-> NULL, event |-> NULL, socket |-> NULL, fn |-> NULL,
            returned |-> NULL, invoked |-> <<>>]

Init ==
    /\ requests = [id \in ReqIds |-> NoRow]
    /\ nextReq = 1
    /\ chats = {}
    /\ chat_members = {}
    /\ now = 0
    /\ pc = [p \in Procs |-> "idle"]
    /\ call = [p \in Procs |-> NoCall]
    /\ row = [p \in Procs |-> NoRow]
    /\ tx = [p \in Procs |-> NoTx]
    /\ last = NoRes
    /\ okResponds = [id \in ReqIds |-> 0]
    /\ blockedPairs = {}
    /\ cancelled = {}
    /\ sockets = [c \in Conns |-> NoSocket]
    /\ rooms = [c \in Conns |-> {}]
    /\ inbox = [c \in Conns |-> <<>>]
    /\ awaiting = [c \in Conns |-> NoTask]
    /\ last_read_message_id = [i \in ChatIds |-> [u \in Users |-> None]]
    /\ pool = NULL
    /\ txn = [p \in Procs |-> NoTxn]
    /\ eventHandlers = NoHandlers
    /\ listeners = [c \in Conns |-> NoListeners]
    /\ registry = [latest |-> NoHandlers, removed |-> NoHandlers,
                   seen |-> [c \in Conns |-> NoHandlers]]
    /\ wsOut = NoWsOut
    /\ refresh_tokens = [t \in TokenIds |-> NoTokenRow]
    /\ nextTok = 1
    /\ rt = [p \in Procs |-> NoRt]
    /\ rotations = [t \in TokenIds |-> 0]
    /\ authOut = NoAuthOut
    /\ nowSec = 0
    /\ channel = NULL
    /\ consumer = NoConsumer
    /\ msgs = [m \in MsgIds |-> NoMsg]
    /\ nextMsg = 1

\* ---------------------------------------------------------------------
\* sendRequest
\* ---------------------------------------------------------------------
SendRequest(p, s, r) ==
    /\ pc[p] = "idle"
    /\ IF s = r
       THEN /\ last' = [NoRes EXCEPT !.name = "sendRequest",
                                      !.kind = "INVALID_REQUEST",
                                      !.step = "idle", !.a = s, !.b = r,
                                      !.res = Reply(Thrown("sendRequest",
                                                 "INVALID_REQUEST"))]
            /\ UNCHANGED <<pc, call>>
       ELSE /\ pc' = [pc EXCEPT ![p] = "s_chat"]
            /\ call' = [call EXCEPT ![p] =
                   [NoCall EXCEPT !.name = "sendRequest", !.a = s, !.b = r]]
            /\ last' = NoRes
    /\ UNCHANGED <<requests, nextReq, now, row, tx, okResponds, blockedPairs,
                   cancelled, storeVars, rtVars, libVars>>

\* the cooldown looked at before the private chat
SendCheckChat_CooldownFirst(p) ==
    /\ pc[p] = "s_chat"
    /\ IF hasActiveRejectedCooldown(call[p].a, call[p].b)
       THEN Finish(p, "COOLDOWN_ACTIVE", NoRow, None)
       ELSE IF hasPrivateChatBetween(call[p].a, call[p].b)
            THEN Finish(p, "CHAT_EXISTS", NoRow, None)
            ELSE Goto(p, "s_cool") /\ UNCHANGED <<row, tx>>
    /\ UNCHANGED <<requests, nextReq, now, okResponds, blockedPairs,
                   storeVars, rtVars, libVars>>

\* sendRequest: the private chat check
SendCheckChat(p) ==
    /\ pc[p] = "s_chat"
    /\ IF hasPrivateChatBetween(call[p].a, call[p].b)
       THEN Finish(p, "CHAT_EXISTS", NoRow, None)
       ELSE Goto(p, "s_cool") /\ UNCHANGED <<row, tx>>
    /\ UNCHANGED <<requests, nextReq, now, okResponds, blockedPairs,
                   storeVars, rtVars, libVars>>

SendCheckCooldown(p) ==
    /\ pc[p] = "s_cool"
    /\ IF hasActiveRejectedCooldown(call[p].a, call[p].b)
       THEN Finish(p, "COOLDOWN_ACTIVE", NoRow, None)
       ELSE Goto(p, "s_pend") /\ UNCHANGED <<row, tx>>
    /\ UNCHANGED <<requests, nextReq, now, okResponds, blockedPairs,
                   storeVars, rtVars, libVars>>

SendCheckPending(p) ==
    /\ pc[p] = "s_pend"
    /\ IF findPendingBetween(call[p].a, call[p].b) # {}
       THEN Finish(p, "REQUEST_EXISTS", NoRow, None)
       ELSE Goto(p, "s_ins") /\ UNCHANGED <<row, tx>>
    /\ UNCHANGED <<requests, nextReq, now, okResponds, blockedPairs,
                   storeVars, rtVars, libVars>>

\* the unique violation rethrown as it came from the driver
createRequest_Rethrown(p) ==
    /\ pc[p] = "s_ins"
    /\ IF chat_requests_pair_unique(call[p].a, call[p].b)
       THEN /\ Finish(p, "STORAGE_ERROR", NoRow, None)
            /\ UNCHANGED <<requests, nextReq>>
       ELSE /\ nextReq <= MaxRequests
            /\ requests' = [requests EXCEPT ![nextReq] =
                                NewRow(nextReq, call[p].a, call[p].b)]
            /\ nextReq' = nextReq + 1
            /\ Finish(p, "ok", NewRow(nextReq, call[p].a, call[p].b), None)
    /\ UNCHANGED <<now, okResponds, blockedPairs, storeVars, rtVars, libVars>>

\* createRequest: the INSERT; SQLSTATE 23505 becomes REQUEST_EXISTS
createRequest(p) ==
    /\ pc[p] = "s_ins"
    /\ IF chat_requests_pair_unique(call[p].a, call[p].b)
       THEN /\ Finish(p, "REQUEST_EXISTS", NoRow, None)
            /\ UNCHANGED <<requests, nextReq>>
       ELSE /\ nextReq <= MaxRequests
            /\ requests' = [requests EXCEPT ![nextReq] =
                                NewRow(nextReq, call[p].a, call[p].b)]
            /\ nextReq' = nextReq + 1
            /\ Finish(p, "ok", NewRow(nextReq, call[p].a, call[p].b), None)
    /\ UNCHANGED <<now, okResponds, blockedPairs, storeVars, rtVars, libVars>>

\* ---------------------------------------------------------------------
\* respondRequest (route POST /:id/respond, then the service in a
\* transaction).  The caller's identity and the decision of the request
\* body (accept, block, rejectedReason) are drawn where the code first
\* reads them.
\* ---------------------------------------------------------------------
RespondRequest(p, id) ==
    /\ pc[p] = "idle"
    /\ pc' = [pc EXCEPT ![p] = "r_load"]
    /\ call' = [call EXCEPT ![p] =
           [NoCall EXCEPT !.name = "respondRequest", !.id = id]]
    /\ last' = NoRes
    /\ UNCHANGED <<requests, nextReq, now, row, tx, okResponds, blockedPairs,
                   cancelled, storeVars, rtVars, libVars>>

\* middleware loadChatRequest and the receiver check of the route
loadChatRequest(p, auth) ==
    /\ pc[p] = "r_load"
    /\ IF findById(call[p].id) = NoRow
       THEN Finish(p, "NOT_FOUND", NoRow, None)
       ELSE IF findById(call[p].id).receiver_id # auth
            THEN Finish(p, "FORBIDDEN", NoRow, None)
            ELSE Goto(p, "r_begin") /\ UNCHANGED <<row, tx>>
    /\ UNCHANGED <<requests, nextReq, now, okResponds, blockedPairs,
                   storeVars, rtVars, libVars>>

\* withTransaction: BEGIN
Begin(p) ==
    /\ pc[p] = "r_begin"
    /\ tx' = [tx EXCEPT ![p] = [NoTx EXCEPT !.begin = now]]
    /\ Goto(p, "r_find")
    /\ UNCHANGED <<requests, nextReq, now, row, okResponds, blockedPairs,
                   storeVars, rtVars, libVars>>

\* respondRequest without the test of row.status
RespondFind_AnyStatus(p, accept) ==
    /\ pc[p] = "r_find"
    /\ IF findById(call[p].id) = NoRow
       THEN Finish(p, "NOT_FOUND", NoRow, None)
       ELSE /\ row' = [row EXCEPT ![p] = findById(call[p].id)]
            /\ pc' = [pc EXCEPT ![p] = IF accept THEN "r_chat" ELSE "r_upd"]
            /\ call' = [call EXCEPT ![p].accept = accept]
            /\ last' = NoRes
            /\ tx' = tx
            /\ cancelled' = cancelled
    /\ UNCHANGED <<requests, nextReq, now, okResponds, blockedPairs,
                   storeVars, rtVars, libVars>>

\* respondRequest: findById through the pool (not the transaction's
\* client, no row lock), then the NOT_FOUND / ALREADY_RESPONDED checks;
\* a throw makes withTransaction roll back
RespondFind(p, accept) ==
    /\ pc[p] = "r_find"
    /\ IF findById(call[p].id) = NoRow
       THEN Finish(p, "NOT_FOUND", NoRow, None)
       ELSE IF findById(call[p].id).status # "pending"
            THEN Finish(p, "ALREADY_RESPONDED", NoRow, None)
            ELSE /\ row' = [row EXCEPT ![p] = findById(call[p].id)]
                 /\ pc' = [pc EXCEPT ![p] =
                              IF accept THEN "r_chat" ELSE "r_upd"]
                 /\ call' = [call EXCEPT ![p].accept = accept]
                 /\ last' = NoRes
                 /\ tx' = tx
                 /\ cancelled' = cancelled
    /\ UNCHANGED <<requests, nextReq, now, okResponds, blockedPairs,
                   storeVars, rtVars, libVars>>

\* chats.id DEFAULT gen_random_uuid(): an id no stored or uncommitted chat has
FreeChatIds ==
    {i \in ChatIds : /\ \A c \in chats : c.id # i
                     /\ \A q \in Procs : tx[q].chat.id # i}

FreshChatId == CHOOSE i \in FreeChatIds : \A j \in FreeChatIds : i <= j

\* INSERT INTO chats inside the transaction (invisible until COMMIT)
createChatWithClient(p) ==
    /\ pc[p] = "r_chat"
    /\ FreeChatIds # {}
    /\ tx' = [tx EXCEPT ![p].chat =
                 [id |-> FreshChatId, type |-> "private",
                  created_by |-> row[p].sender_id]]
    /\ Goto(p, "r_m1")
    /\ UNCHANGED <<requests, nextReq, now, row, okResponds, blockedPairs,
                   storeVars, rtVars, libVars>>

\* unique (chat_id, user_id) on chat_members
chat_members_unique(p, chatId, userId) ==
    \E m \in chat_members \cup tx[p].members :
        m.chat_id = chatId /\ m.user_id = userId

\* INSERT INTO chat_members inside the transaction
addMemberWithClient(p, label, userId, role, next) ==
    /\ pc[p] = label
    /\ IF chat_members_unique(p, tx[p].chat.id, userId)
       THEN Finish(p, "STORAGE_ERROR", NoRow, None)
       ELSE /\ tx' = [tx EXCEPT ![p].members = @ \cup
                        {[chat_id |-> tx[p].chat.id, user_id |-> userId,
                          role |-> role]}]
            /\ Goto(p, next)
            /\ row' = row
    /\ UNCHANGED <<requests, nextReq, now, okResponds, blockedPairs,
                   storeVars, rtVars, libVars>>

\* the sender added with the default role
AddSender_AsMember(p) ==
    addMemberWithClient(p, "r_m1", row[p].sender_id, "member", "r_m2")

\* respondRequest: the sender of the request becomes admin of the chat
AddSender(p) ==
    addMemberWithClient(p, "r_m1", row[p].sender_id, "admin", "r_m2")

AddReceiver(p) ==
    addMemberWithClient(p, "r_m2", row[p].receiver_id, "member", "r_upd")

\* a statement of the transaction throws (storage failure): withTransaction
\* issues ROLLBACK, the uncommitted writes are dropped, the error rethrown
StatementFails(p) ==
    /\ pc[p] \in {"r_chat", "r_m1", "r_m2", "r_upd"}
    /\ Finish(p, "STORAGE_ERROR", NoRow, None)
    /\ UNCHANGED <<requests, nextReq, now, okResponds, blockedPairs,
                   storeVars, rtVars, libVars>>

\* the row written by the decision taken in respondRequest
Decided(p, cur, block, reason) ==
    IF call[p].accept
    THEN updateStatusWithClient(cur, "accepted", tx[p].begin, NULL, None)
    ELSE IF block
         THEN updateStatusWithClient(cur, "blocked", tx[p].begin, NULL, None)
         ELSE updateStatusWithClient(cur, "rejected", tx[p].begin,
                                     reason, now + COOLDOWN_MS)

\* the UPDATE (WHERE id = $4 only; it waits for a competing writer's
\* COMMIT and then applies to the row as it is) followed by COMMIT, which
\* publishes the chat and the memberships inserted by this transaction
RespondUpdate(p, block, reason) ==
    /\ pc[p] = "r_upd"
    /\ LET cur == requests[call[p].id]
           updated == IF cur = NoRow THEN NoRow ELSE Decided(p, cur, block, reason)
       IN /\ requests' = IF cur = NoRow THEN requests
                         ELSE [requests EXCEPT ![call[p].id] = updated]
          /\ blockedPairs' =
                IF cur # NoRow /\ updated.status = "blocked"
                THEN blockedPairs \cup {Pair(cur.sender_id, cur.receiver_id)}
                ELSE blockedPairs
          /\ chats' = IF tx[p].chat = NoChat THEN chats
                      ELSE chats \cup {tx[p].chat}
          /\ chat_members' = chat_members \cup tx[p].members
          /\ okResponds' = [okResponds EXCEPT ![call[p].id] = @ + 1]
          /\ Finish(p, "ok", updated, tx[p].chat.id)
    /\ UNCHANGED <<nextReq, now, last_read_message_id, rtVars, libVars>>

\* ---------------------------------------------------------------------
\* cancelRequest
\* ---------------------------------------------------------------------
CancelRequest(p, id) ==
    /\ pc[p] = "idle"
    /\ pc' = [pc EXCEPT ![p] = "c_find"]
    /\ call' = [call EXCEPT ![p] =
           [NoCall EXCEPT !.name = "cancelRequest", !.id = id]]
    /\ last' = NoRes
    /\ UNCHANGED <<requests, nextReq, now, row, tx, okResponds, blockedPairs,
                   cancelled, storeVars, rtVars, libVars>>

\* cancelRequest without the test of row.sender_id
CancelFind_AnyUser(p, user) ==
    /\ pc[p] = "c_find"
    /\ IF findById(call[p].id) = NoRow
       THEN Finish(p, "NOT_FOUND", NoRow, None)
       ELSE IF findById(call[p].id).status # "pending"
            THEN Finish(p, "ALREADY_RESPONDED", NoRow, None)
            ELSE /\ row' = [row EXCEPT ![p] = findById(call[p].id)]
                 /\ Goto(p, "c_del")
                 /\ tx' = tx
    /\ UNCHANGED <<requests, nextReq, now, okResponds, blockedPairs,
                   storeVars, rtVars, libVars>>

\* cancelRequest: findById and the checks on the row
CancelFind(p, user) ==
    /\ pc[p] = "c_find"
    /\ IF findById(call[p].id) = NoRow
       THEN Finish(p, "NOT_FOUND", NoRow, None)
       ELSE IF findById(call[p].id).sender_id # user
            THEN Finish(p, "FORBIDDEN", NoRow, None)
            ELSE IF findById(call[p].id).status # "pending"
                 THEN Finish(p, "ALREADY_RESPONDED", NoRow, None)
                 ELSE /\ row' = [row EXCEPT ![p] = findById(call[p].id)]
                      /\ Goto(p, "c_del")
                      /\ tx' = tx
    /\ UNCHANGED <<requests, nextReq, now, okResponds, blockedPairs,
                   storeVars, rtVars, libVars>>

\* a soft delete: the row stays in the table, marked cancelled
deleteById_Soft(p) ==
    /\ pc[p] = "c_del"
    /\ IF requests[call[p].id] # NoRow
       THEN /\ requests' = [requests EXCEPT ![call[p].id].status = "cancelled"]
            /\ Finish(p, "ok", NoRow, None)
       ELSE /\ requests' = requests
            /\ Finish(p, "DELETE_FAILED", NoRow, None)
    /\ UNCHANGED <<nextReq, now, okResponds, blockedPairs, storeVars, rtVars, libVars>>

\* DELETE FROM chat_requests WHERE id = $1; rowCount 0 -> DELETE_FAILED
deleteById(p) ==
    /\ pc[p] = "c_del"
    /\ IF requests[call[p].id] # NoRow
       THEN /\ requests' = [requests EXCEPT ![call[p].id] = NoRow]
            /\ Finish(p, "ok", NoRow, None)
       ELSE /\ requests' = requests
            /\ Finish(p, "DELETE_FAILED", NoRow, None)
    /\ UNCHANGED <<nextReq, now, okResponds, blockedPairs, storeVars, rtVars, libVars>>

\* the clock advances
Tick ==
    /\ now + TickMs <= MaxTicks * TickMs
    /\ now' = now + TickMs
    /\ last' = NoRes
    /\ UNCHANGED <<requests, nextReq, pc, call, row, tx, okResponds,
                   blockedPairs, cancelled, storeVars, rtVars, libVars>>

\* ---------------------------------------------------------------------
\* chatService.createChat (direct creation), one transaction
\* ---------------------------------------------------------------------
\* addMembersWithClient: the inserts of member_ids[i..], in order, on top of
\* the rows acc already inserted; "failed" when one violates the unique
\* (chat_id, user_id) constraint
RECURSIVE addMembersWithClient(_, _, _, _)
addMembersWithClient(chatId, member_ids, i, acc) ==
    IF i > Len(member_ids) THEN [failed |-> FALSE, rows |-> acc]
    ELSE IF \E m \in acc : m.user_id = member_ids[i]
         THEN [failed |-> TRUE, rows |-> {}]
         ELSE addMembersWithClient(chatId, member_ids, i + 1,
                  acc \cup {[chat_id |-> chatId, user_id |-> member_ids[i],
                             role |-> "member"]})

\* the inserts sent without a transaction: the chat row stays when a
\* membership insert fails
createChat_NoTransaction(type, created_by, member_ids) ==
    /\ IF Len(member_ids) = 0
       THEN /\ last' = [NoRes EXCEPT !.name = "createChat",
                                      !.kind = "INVALID_INPUT",
                                      !.res = Reply(ThrownByChat(
                                                 "INVALID_INPUT"))]
            /\ UNCHANGED <<chats, chat_members>>
       ELSE /\ FreeChatIds # {}
            /\ LET added == addMembersWithClient(FreshChatId, member_ids,
                                                 1, {})
               IN /\ chats' = chats \cup
                        {[id |-> FreshChatId, type |-> type,
                          created_by |-> created_by]}
                  /\ chat_members' = chat_members \cup added.rows
                  /\ last' = [NoRes EXCEPT !.name = "createChat",
                                 !.kind = IF added.failed
                                          THEN "STORAGE_ERROR" ELSE "ok",
                                 !.chat = IF added.failed
                                          THEN None ELSE FreshChatId,
                                 !.res = IF added.failed
                                         THEN Reply(ThrownByChat(
                                                 "STORAGE_ERROR"))
                                         ELSE NoResponse]
    /\ UNCHANGED <<requests, nextReq, now, pc, call, row, tx, okResponds,
                   blockedPairs, cancelled, last_read_message_id, rtVars, libVars>>

\* chatService.createChat
createChat(type, created_by, member_ids) ==
    /\ IF Len(member_ids) = 0
       THEN /\ last' = [NoRes EXCEPT !.name = "createChat",
                                      !.kind = "INVALID_INPUT",
                                      !.res = Reply(ThrownByChat(
                                                 "INVALID_INPUT"))]
            /\ UNCHANGED <<chats, chat_members>>
       ELSE /\ FreeChatIds # {}
            /\ LET added == addMembersWithClient(FreshChatId, member_ids,
                                                 1, {})
               IN IF added.failed
                  THEN /\ last' = [NoRes EXCEPT !.name = "createChat",
                                                 !.kind = "STORAGE_ERROR",
                                                 !.res = Reply(ThrownByChat(
                                                    "STORAGE_ERROR"))]
                       /\ UNCHANGED <<chats, chat_members>>
                  ELSE /\ chats' = chats \cup
                             {[id |-> FreshChatId, type |-> type,
                               created_by |-> created_by]}
                       /\ chat_members' = chat_members \cup added.rows
                       /\ last' = [NoRes EXCEPT !.name = "createChat",
                                                 !.kind = "ok",
                                                 !.chat = FreshChatId]
    /\ UNCHANGED <<requests, nextReq, now, pc, call, row, tx, okResponds,
                   blockedPairs, cancelled, last_read_message_id, rtVars, libVars>>

\* ---------------------------------------------------------------------
\* Real-time layer: socket.io server, rooms, chat event handlers
\* ---------------------------------------------------------------------
\* access tokens: login and registration sign the payload {sub, email}
signAccessToken(u) == [kind |-> "signed", sub |-> u, id |-> NULL]
Tokens ==
    {[kind |-> "missing", sub |-> NULL, id |-> NULL],
     [kind |-> "invalid", sub |-> NULL, id |-> NULL]}
    \cup {signAccessToken(u) : u \in Users}

\* z.string().uuid() of the chatId; None stands for a missing or
\* malformed id
IsUuid(x) == x \in RoomIds
ContentLens == {0, 1, 5000, 5001}
ValidContent(len) == len >= ContentMin /\ len <= ContentMax

NoMail == [c \in Conns |-> <<>>]
Emit(box, targets, ev) ==
    [c \in Conns |-> IF c \in targets THEN Append(box[c], ev) ELSE box[c]]

\* the sockets of a room in the adapter
SocketsIn(rm, room) == {c \in Conns : sockets[c].connected /\ room \in rm[c]}

\* a broadcast that leaves out the sending socket
emitToRoom_ExceptSender(box, rm, sender, room, ev) ==
    Emit(box, SocketsIn(rm, room) \ {sender}, ev)

\* io.to(room).emit(event, data)
emitToRoom(box, rm, sender, room, ev) == Emit(box, SocketsIn(rm, room), ev)

\* a socket.to that also reaches the socket itself
socketTo_All(box, rm, sender, room, ev) ==
    Emit(box, SocketsIn(rm, room), ev)

\* socket.to(room).emit(event, data): the room without the socket itself
socketTo(box, rm, sender, room, ev) ==
    Emit(box, SocketsIn(rm, room) \ {sender}, ev)

\* an error event that does not name the client event
ErrorEvent_Unnamed(of) == [NoEvent EXCEPT !.event = "error"]

\* socket.emit('error', {event, message, errors})
ErrorEvent(of) == [NoEvent EXCEPT !.event = "error", !.of = of]

\* what the latest real-time step was: the client event, the socket, the
\* chatId of its payload and whether the payload passed validation
Handled(event, c, chatId, kind) ==
    [NoRes EXCEPT !.name = event, !.kind = kind, !.a = c, !.chat = chatId]

\* a handshake that lets every client in
Connect_Open(c, token) ==
    /\ ~sockets[c].connected
    /\ sockets' = [sockets EXCEPT ![c] =
             [connected |-> TRUE, sub |-> token.sub, userId |-> token.id]]
    /\ inbox' = NoMail
    /\ last' = Handled("connect", c, None,
                       IF token.kind = "signed" THEN "ok" ELSE "error")
    /\ UNCHANGED <<ledgerVars, storeVars, libVars, awaiting, rooms>>

\* handshake: the auth middleware registered in index.ts, then 'connection'
Connect(c, token) ==
    /\ ~sockets[c].connected
    /\ IF token.kind # "signed"
       THEN sockets' = sockets
       ELSE sockets' = [sockets EXCEPT ![c] =
                [connected |-> TRUE, sub |-> token.sub, userId |-> token.id]]
    /\ inbox' = NoMail
    /\ last' = Handled("connect", c, None,
                       IF token.kind = "signed" THEN "ok" ELSE "error")
    /\ UNCHANGED <<ledgerVars, storeVars, libVars, awaiting, rooms>>

\* a disconnect that leaves the adapter's room sets as they are
Disconnect_KeepRooms(c) ==
    /\ sockets[c].connected
    /\ sockets' = [sockets EXCEPT ![c] = NoSocket]
    /\ rooms' = rooms
    /\ inbox' = NoMail
    /\ last' = [Handled("disconnect", c, None, "ok")
                    EXCEPT !.left = rooms[c]]
    /\ UNCHANGED <<ledgerVars, storeVars, libVars, awaiting>>

\* the transport closes: socket.io removes the socket from its rooms
Disconnect(c) ==
    /\ sockets[c].connected
    /\ sockets' = [sockets EXCEPT ![c] = NoSocket]
    /\ rooms' = [rooms EXCEPT ![c] = {}]
    /\ inbox' = NoMail
    /\ last' = [Handled("disconnect", c, None, "ok")
                    EXCEPT !.left = rooms[c]]
    /\ UNCHANGED <<ledgerVars, storeVars, libVars, awaiting>>

\* handler of chat:join
ChatJoin(c, chatId) ==
    /\ sockets[c].connected
    /\ IF ~IsUuid(chatId)
       THEN /\ inbox' = Emit(NoMail, {c}, ErrorEvent("chat:join"))
            /\ rooms' = rooms
       ELSE /\ rooms' = [rooms EXCEPT ![c] = @ \cup {chatId}]
            /\ inbox' = socketTo(
                   Emit(NoMail, {c},
                        [NoEvent EXCEPT !.event = "chat:joined",
                                        !.chatId = chatId]),
                   rooms', c, chatId,
                   [NoEvent EXCEPT !.event = "chat:user_joined",
                                   !.chatId = chatId,
                                   !.userId = sockets[c].userId])
    /\ last' = Handled("chat:join", c, chatId,
                       IF IsUuid(chatId) THEN "ok" ELSE "error")
    /\ UNCHANGED <<ledgerVars, storeVars, libVars, awaiting, sockets>>

\* handler of chat:leave
ChatLeave(c, chatId) ==
    /\ sockets[c].connected
    /\ IF ~IsUuid(chatId)
       THEN /\ inbox' = Emit(NoMail, {c}, ErrorEvent("chat:leave"))
            /\ rooms' = rooms
       ELSE /\ rooms' = [rooms EXCEPT ![c] = @ \ {chatId}]
            /\ inbox' = socketTo(
                   Emit(NoMail, {c},
                        [NoEvent EXCEPT !.event = "chat:left",
                                        !.chatId = chatId]),
                   rooms', c, chatId,
                   [NoEvent EXCEPT !.event = "chat:user_left",
                                   !.chatId = chatId,
                                   !.userId = sockets[c].userId])
    /\ last' = Handled("chat:leave", c, chatId,
                       IF IsUuid(chatId) THEN "ok" ELSE "error")
    /\ UNCHANGED <<ledgerVars, storeVars, libVars, awaiting, sockets>>

\* handler of chat:send_message
ChatSendMessage(c, chatId, len) ==
    /\ sockets[c].connected
    /\ IF ~(IsUuid(chatId) /\ ValidContent(len))
       THEN inbox' = Emit(NoMail, {c}, ErrorEvent("chat:send_message"))
       ELSE inbox' = emitToRoom(NoMail, rooms, c, chatId,
                        [NoEvent EXCEPT !.event = "chat:new_message",
                                        !.chatId = chatId,
                                        !.userId = sockets[c].userId])
    /\ last' = Handled("chat:send_message", c, chatId,
                       IF IsUuid(chatId) /\ ValidContent(len)
                       THEN "ok" ELSE "error")
    /\ UNCHANGED <<ledgerVars, storeVars, libVars, awaiting, sockets, rooms>>

\* z.boolean() of isTyping; "missing" stands for an absent or non-boolean
\* value
IsBoolean(x) == x \in {"true", "false"}
\* z.string().uuid() of messageId; None stands for a missing or malformed id
IsMessageId(x) == x \in MessageIds

\* a chat:typing that answers a malformed payload with an error event
ChatTyping_ErrorReply(c, chatId, isTyping) ==
    /\ sockets[c].connected
    /\ IF ~(IsUuid(chatId) /\ IsBoolean(isTyping))
       THEN inbox' = Emit(NoMail, {c}, ErrorEvent("chat:typing"))
       ELSE inbox' = socketTo(NoMail, rooms, c, chatId,
                        [NoEvent EXCEPT !.event = "chat:user_typing",
                                        !.chatId = chatId,
                                        !.userId = sockets[c].userId,
                                        !.isTyping = isTyping])
    /\ last' = Handled("chat:typing", c, chatId,
                       IF IsUuid(chatId) /\ IsBoolean(isTyping)
                       THEN "ok" ELSE "dropped")
    /\ UNCHANGED <<ledgerVars, storeVars, libVars, awaiting, sockets, rooms>>

\* handler of chat:typing
ChatTyping(c, chatId, isTyping) ==
    /\ sockets[c].connected
    /\ IF ~(IsUuid(chatId) /\ IsBoolean(isTyping))
       THEN inbox' = NoMail
       ELSE inbox' = socketTo(NoMail, rooms, c, chatId,
                        [NoEvent EXCEPT !.event = "chat:user_typing",
                                        !.chatId = chatId,
                                        !.userId = sockets[c].userId,
                                        !.isTyping = isTyping])
    /\ last' = Handled("chat:typing", c, chatId,
                       IF IsUuid(chatId) /\ IsBoolean(isTyping)
                       THEN "ok" ELSE "dropped")
    /\ UNCHANGED <<ledgerVars, storeVars, libVars, awaiting, sockets, rooms>>

\* handler of chat:mark_read (the update of chat_members is a TODO comment)
ChatMarkRead(c, chatId, messageId) ==
    /\ sockets[c].connected
    /\ IF ~(IsUuid(chatId) /\ IsMessageId(messageId))
       THEN inbox' = Emit(NoMail, {c}, ErrorEvent("chat:mark_read"))
       ELSE inbox' = socketTo(NoMail, rooms, c, chatId,
                        [NoEvent EXCEPT !.event = "chat:message_read",
                                        !.chatId = chatId,
                                        !.userId = sockets[c].userId,
                                        !.messageId = messageId])
    /\ last' = [Handled("chat:mark_read", c, chatId,
                        IF IsUuid(chatId) /\ IsMessageId(messageId)
                        THEN "ok" ELSE "error")
                    EXCEPT !.id = messageId]
    /\ UNCHANGED <<ledgerVars, storeVars, libVars, awaiting, sockets, rooms>>

\* the reply counts the users of the room instead of its sockets
ChatGetOnlineUsers_ByUser(c, chatId) ==
    /\ sockets[c].connected
    /\ IF ~IsUuid(chatId)
       THEN inbox' = Emit(NoMail, {c}, ErrorEvent("chat:get_online_users"))
       ELSE inbox' = Emit(NoMail, {c},
                        [NoEvent EXCEPT !.event = "chat:online_users",
                                        !.chatId = chatId,
                                        !.count = Cardinality(
                                           {sockets[d].sub :
                                              d \in SocketsIn(rooms, chatId)})])
    /\ last' = Handled("chat:get_online_users", c, chatId,
                       IF IsUuid(chatId) THEN "ok" ELSE "error")
    /\ UNCHANGED <<ledgerVars, storeVars, libVars, awaiting, sockets, rooms>>

\* handler of chat:get_online_users
ChatGetOnlineUsers(c, chatId) ==
    /\ sockets[c].connected
    /\ IF ~IsUuid(chatId)
       THEN inbox' = Emit(NoMail, {c}, ErrorEvent("chat:get_online_users"))
       ELSE inbox' = Emit(NoMail, {c},
                        [NoEvent EXCEPT !.event = "chat:online_users",
                                        !.chatId = chatId,
                                        !.count = Cardinality(
                                                     SocketsIn(rooms, chatId))])
    /\ last' = Handled("chat:get_online_users", c, chatId,
                       IF IsUuid(chatId) THEN "ok" ELSE "error")
    /\ UNCHANGED <<ledgerVars, storeVars, libVars, awaiting, sockets, rooms>>

\* the client events with a registered handler
Events == {"chat:join", "chat:leave", "chat:send_message", "chat:typing",
           "chat:mark_read", "chat:get_online_users"}

\* a handler that throws ends the connection
HandlerThrows_Closes(c, event) ==
    /\ sockets[c].connected
    /\ sockets' = [sockets EXCEPT ![c] = NoSocket]
    /\ rooms' = [rooms EXCEPT ![c] = {}]
    /\ inbox' = NoMail
    /\ last' = Handled(event, c, None, "thrown")
    /\ UNCHANGED <<ledgerVars, storeVars, libVars, awaiting>>

\* the wrapper around every handler: a handler that throws (or rejects) is
\* caught and answered with an error event to the socket
HandlerThrows(c, event) ==
    /\ sockets[c].connected
    /\ inbox' = Emit(NoMail, {c}, ErrorEvent(event))
    /\ last' = Handled(event, c, None, "thrown")
    /\ UNCHANGED <<ledgerVars, storeVars, libVars, awaiting, sockets, rooms>>

\* chat:join up to its first await: validation, then socket.join, which
\* the in-memory adapter completes before the handler is suspended
ChatJoinAwait(c, chatId) ==
    /\ sockets[c].connected
    /\ \A d \in Conns : awaiting[d] = NoTask
    /\ IF ~IsUuid(chatId)
       THEN /\ inbox' = Emit(NoMail, {c}, ErrorEvent("chat:join"))
            /\ UNCHANGED <<rooms, awaiting>>
       ELSE /\ rooms' = [rooms EXCEPT ![c] = @ \cup {chatId}]
            /\ awaiting' = [awaiting EXCEPT ![c] =
                                [event |-> "chat:join", chatId |-> chatId]]
            /\ inbox' = NoMail
    /\ last' = Handled("chat:join", c, chatId,
                       IF IsUuid(chatId) THEN "await" ELSE "error")
    /\ UNCHANGED <<ledgerVars, storeVars, libVars, sockets>>

\* chat:join after the await: the confirmation and the notification
ChatJoinResume(c) ==
    /\ awaiting[c].event = "chat:join"
    /\ inbox' = socketTo(
           Emit(NoMail, {c},
                [NoEvent EXCEPT !.event = "chat:joined",
                                !.chatId = awaiting[c].chatId]),
           rooms, c, awaiting[c].chatId,
           [NoEvent EXCEPT !.event = "chat:user_joined",
                           !.chatId = awaiting[c].chatId,
                           !.userId = sockets[c].userId])
    /\ awaiting' = [awaiting EXCEPT ![c] = NoTask]
    /\ last' = Handled("chat:join", c, awaiting[c].chatId, "ok")
    /\ UNCHANGED <<ledgerVars, storeVars, libVars, sockets, rooms>>

\* chat:leave up to its first await: validation, then socket.leave
ChatLeaveAwait(c, chatId) ==
    /\ sockets[c].connected
    /\ \A d \in Conns : awaiting[d] = NoTask
    /\ IF ~IsUuid(chatId)
       THEN /\ inbox' = Emit(NoMail, {c}, ErrorEvent("chat:leave"))
            /\ UNCHANGED <<rooms, awaiting>>
       ELSE /\ rooms' = [rooms EXCEPT ![c] = @ \ {chatId}]
            /\ awaiting' = [awaiting EXCEPT ![c] =
                                [event |-> "chat:leave", chatId |-> chatId]]
            /\ inbox' = NoMail
    /\ last' = Handled("chat:leave", c, chatId,
                       IF IsUuid(chatId) THEN "await" ELSE "error")
    /\ UNCHANGED <<ledgerVars, storeVars, libVars, sockets>>

\* chat:leave after the await: the confirmation and the notification
ChatLeaveResume(c) ==
    /\ awaiting[c].event = "chat:leave"
    /\ inbox' = socketTo(
           Emit(NoMail, {c},
                [NoEvent EXCEPT !.event = "chat:left",
                                !.chatId = awaiting[c].chatId]),
           rooms, c, awaiting[c].chatId,
           [NoEvent EXCEPT !.event = "chat:user_left",
                           !.chatId = awaiting[c].chatId,
                           !.userId = sockets[c].userId])
    /\ awaiting' = [awaiting EXCEPT ![c] = NoTask]
    /\ last' = Handled("chat:leave", c, awaiting[c].chatId, "ok")
    /\ UNCHANGED <<ledgerVars, storeVars, libVars, sockets, rooms>>

\* the values a client can put in isTyping
TypingValues == {"true", "false", "missing"}

\* the socket server with chat:join and chat:leave suspended at their
\* await, during which events of any socket, the same one included, are
\* dispatched; at most one handler is suspended at a time and a socket
\* closes between its handlers
NextEvents ==
    \/ \E c \in Conns, token \in Tokens : Connect(c, token)
    \/ \E c \in Conns : awaiting[c] = NoTask /\ Disconnect(c)
    \/ \E c \in Conns, chatId \in RoomIds \cup {None} :
            ChatJoinAwait(c, chatId)
    \/ \E c \in Conns : ChatJoinResume(c)
    \/ \E c \in Conns, chatId \in RoomIds \cup {None} :
            ChatLeaveAwait(c, chatId)
    \/ \E c \in Conns : ChatLeaveResume(c)
    \/ \E c \in Conns, chatId \in RoomIds \cup {None}, len \in ContentLens :
            ChatSendMessage(c, chatId, len)

SpecEvents == Init /\ [][NextEvents]_vars

\* the socket server with every handler, each run to its end before the
\* next event is dispatched
NextHandlers ==
    \/ \E c \in Conns, token \in Tokens : Connect(c, token)
    \/ \E c \in Conns : Disconnect(c)
    \/ \E c \in Conns, chatId \in RoomIds \cup {None} : ChatJoin(c, chatId)
    \/ \E c \in Conns, chatId \in RoomIds \cup {None} : ChatLeave(c, chatId)
    \/ \E c \in Conns, chatId \in RoomIds \cup {None}, len \in ContentLens :
            ChatSendMessage(c, chatId, len)
    \/ \E c \in Conns, chatId \in RoomIds \cup {None},
          isTyping \in TypingValues : ChatTyping(c, chatId, isTyping)
    \/ \E c \in Conns, chatId \in RoomIds \cup {None},
          messageId \in MessageIds \cup {None} :
            ChatMarkRead(c, chatId, messageId)
    \/ \E c \in Conns, chatId \in RoomIds \cup {None} :
            ChatGetOnlineUsers(c, chatId)
    \/ \E c \in Conns, event \in Events : HandlerThrows(c, event)

SpecHandlers == Init /\ [][NextHandlers]_vars

\* chats created through the API, sockets joining their rooms and marking
\* messages read
NextRead ==
    \/ \E n \in 0..MaxMembers :
            \E member_ids \in [1..n -> Users] :
                createChat("group", NULL, member_ids)
    \/ \E c \in Conns, token \in Tokens : Connect(c, token)
    \/ \E c \in Conns, chatId \in RoomIds \cup {None} : ChatJoin(c, chatId)
    \/ \E c \in Conns, chatId \in RoomIds \cup {None},
          messageId \in MessageIds \cup {None} :
            ChatMarkRead(c, chatId, messageId)

SpecRead == Init /\ [][NextRead]_vars

NextRT ==
    \/ \E n \in 0..MaxMembers :
            \E member_ids \in [1..n -> Users] :
                createChat("group", NULL, member_ids)
    \/ \E c \in Conns, token \in Tokens : Connect(c, token)
    \/ \E c \in Conns : Disconnect(c)
    \/ \E c \in Conns, chatId \in RoomIds \cup {None} : ChatJoin(c, chatId)
    \/ \E c \in Conns, chatId \in RoomIds \cup {None} : ChatLeave(c, chatId)
    \/ \E c \in Conns, chatId \in RoomIds \cup {None}, len \in ContentLens :
            ChatSendMessage(c, chatId, len)

SpecRT == Init /\ [][NextRT]_vars

\* one step of the request handler p
LedgerStep(p) ==
    \/ \E s \in Users, r \in Users : SendRequest(p, s, r)
    \/ SendCheckChat(p)
    \/ SendCheckCooldown(p)
    \/ SendCheckPending(p)
    \/ createRequest(p)
    \/ \E id \in 1..(nextReq - 1) : RespondRequest(p, id)
    \/ \E auth \in Users : loadChatRequest(p, auth)
    \/ Begin(p)
    \/ \E accept \in BOOLEAN : RespondFind(p, accept)
    \/ createChatWithClient(p)
    \/ AddSender(p)
    \/ AddReceiver(p)
    \/ StatementFails(p)
    \/ \E block \in BOOLEAN, reason \in Reasons : RespondUpdate(p, block, reason)
    \/ \E id \in 1..(nextReq - 1) : CancelRequest(p, id)
    \/ \E user \in Users : CancelFind(p, user)
    \/ deleteById(p)

\* concurrent request handlers against the store
Next == \E p \in Procs : LedgerStep(p)

Spec == Init /\ [][Next]_vars

\* one request handler and the clock
NextClock == LedgerStep("h1") \/ Tick

SpecClock == Init /\ [][NextClock]_vars

\* the types accepted by ChatCreateSchema
ChatTypes == {"private", "group"}

\* calls made one after the other: one request handler, and the direct
\* chat creation API (payloads without created_by) between its calls
NextApi ==
    \/ LedgerStep("h1")
    \/ /\ pc["h1"] = "idle"
       /\ \E type \in ChatTypes :
             \E n \in 0..MaxMembers :
                \E member_ids \in [1..n -> Users] :
                   createChat(type, NULL, member_ids)

SpecApi == Init /\ [][NextApi]_vars

\* ---------------------------------------------------------------------
\* databases/postgres: initPostgres and withTransaction
\* ---------------------------------------------------------------------
\* what the callback given to withTransaction may return
Results == {"r1", "r2"}

\* everything but the transaction wrapper stays as it is
TxFrame == UNCHANGED <<ledgerVars, storeVars, rtVars, last, regVars, authVars,
                       mqVars>>

\* initPostgres: the pool is created
initPostgres ==
    /\ pool = NULL
    /\ pool' = "pool"
    /\ txn' = txn
    /\ TxFrame

\* withTransaction is called: without a pool it throws at once, otherwise
\* it waits for pool.connect()
withTransaction(p) ==
    /\ txn[p].pc = "idle"
    /\ txn' = [txn EXCEPT ![p] =
                 IF pool = NULL
                 THEN [NoTxn EXCEPT !.out = "thrown",
                                    !.thrown = "pool not initialized"]
                 ELSE [NoTxn EXCEPT !.pc = "connect"]]
    /\ pool' = pool
    /\ TxFrame

\* await pool.connect(): a client, or the rejection leaves the function
\* (the try block is not entered yet)
TxConnect(p) ==
    /\ txn[p].pc = "connect"
    /\ \E ok \in BOOLEAN :
          txn' = [txn EXCEPT ![p] =
                    IF ok THEN [@ EXCEPT !.pc = "begin"]
                    ELSE [@ EXCEPT !.pc = "idle", !.out = "thrown",
                                   !.thrown = "connect failed"]]
    /\ pool' = pool
    /\ TxFrame

\* await client.query('BEGIN')
TxBegin(p) ==
    /\ txn[p].pc = "begin"
    /\ \E ok \in BOOLEAN :
          txn' = [txn EXCEPT ![p] =
                    IF ok THEN [@ EXCEPT !.pc = "fn",
                                         !.log = Append(@, "BEGIN")]
                    ELSE [@ EXCEPT !.pc = "rollback",
                                   !.log = Append(@, "BEGIN"),
                                   !.err = "BEGIN failed"]]
    /\ pool' = pool
    /\ TxFrame

\* await fn(client): the callback returns a result or throws
TxFn(p) ==
    /\ txn[p].pc = "fn"
    /\ \/ \E r \in Results :
             txn' = [txn EXCEPT ![p] = [@ EXCEPT !.pc = "commit",
                                                 !.fn = "returned",
                                                 !.result = r]]
       \/ txn' = [txn EXCEPT ![p] = [@ EXCEPT !.pc = "rollback",
                                              !.fn = "threw",
                                              !.err = "fn failed"]]
    /\ pool' = pool
    /\ TxFrame

\* await client.query('COMMIT'); return result
TxCommit(p) ==
    /\ txn[p].pc = "commit"
    /\ \E ok \in BOOLEAN :
          txn' = [txn EXCEPT ![p] =
                    IF ok THEN [@ EXCEPT !.pc = "finally",
                                         !.log = Append(@, "COMMIT")]
                    ELSE [@ EXCEPT !.pc = "rollback",
                                   !.log = Append(@, "COMMIT"),
                                   !.err = "COMMIT failed"]]
    /\ pool' = pool
    /\ TxFrame

\* a catch block that lets the failure of ROLLBACK replace the error
TxRollback_Masks(p) ==
    /\ txn[p].pc = "rollback"
    /\ \E ok \in BOOLEAN :
          txn' = [txn EXCEPT ![p] =
                    [@ EXCEPT !.pc = "finally",
                              !.log = Append(@, "ROLLBACK"),
                              !.rollback = IF ok THEN "ok" ELSE "failed",
                              !.err = IF ok THEN @ ELSE "ROLLBACK failed"]]
    /\ pool' = pool
    /\ TxFrame

\* catch (err): ROLLBACK is sent, its own failure is only logged, and err
\* is thrown again
TxRollback(p) ==
    /\ txn[p].pc = "rollback"
    /\ \E ok \in BOOLEAN :
          txn' = [txn EXCEPT ![p] =
                    [@ EXCEPT !.pc = "finally",
                              !.log = Append(@, "ROLLBACK"),
                              !.rollback = IF ok THEN "ok" ELSE "failed"]]
    /\ pool' = pool
    /\ TxFrame

\* finally: client.release(), then the result or the error leaves
TxFinally(p) ==
    /\ txn[p].pc = "finally"
    /\ txn' = [txn EXCEPT ![p] =
                 [@ EXCEPT !.pc = "idle",
                           !.released = @ + 1,
                           !.out = IF txn[p].err = NULL
                                   THEN "returned" ELSE "thrown",
                           !.thrown = txn[p].err]]
    /\ pool' = pool
    /\ TxFrame

NextTx ==
    \/ initPostgres
    \/ \E p \in Procs : withTransaction(p)
    \/ \E p \in Procs : TxConnect(p)
    \/ \E p \in Procs : TxBegin(p)
    \/ \E p \in Procs : TxFn(p)
    \/ \E p \in Procs : TxCommit(p)
    \/ \E p \in Procs : TxRollback(p)
    \/ \E p \in Procs : TxFinally(p)

SpecTx == Init /\ [][NextTx]_vars

\* ---------------------------------------------------------------------
\* lib/websocket: the handler registry (on, off) and its attachment to
\* the sockets that connect
\* ---------------------------------------------------------------------
RegFrame == UNCHANGED <<ledgerVars, storeVars, rtVars, last, txVars, authVars,
                        mqVars>>

\* a registry that keeps the first handler registered for an event
on_FirstWins(event, handler) ==
    /\ eventHandlers' = IF eventHandlers[event] = NULL
                        THEN [eventHandlers EXCEPT ![event] = handler]
                        ELSE eventHandlers
    /\ registry' = [registry EXCEPT !.latest[event] = handler,
                                    !.removed[event] = NULL]
    /\ wsOut' = [NoWsOut EXCEPT !.op = "on", !.event = event, !.fn = handler]
    /\ listeners' = listeners
    /\ RegFrame

\* on(event, handler): eventHandlers.set(event, handler)
on(event, handler) ==
    /\ eventHandlers' = [eventHandlers EXCEPT ![event] = handler]
    /\ registry' = [registry EXCEPT !.latest[event] = handler,
                                    !.removed[event] = NULL]
    /\ wsOut' = [NoWsOut EXCEPT !.op = "on", !.event = event, !.fn = handler]
    /\ listeners' = listeners
    /\ RegFrame

\* off(event): eventHandlers.delete(event), which tells whether the key
\* existed
off(event) ==
    /\ eventHandlers' = [eventHandlers EXCEPT ![event] = NULL]
    /\ registry' = [registry EXCEPT
                      !.latest[event] = NULL,
                      !.removed[event] = IF eventHandlers[event] # NULL
                                         THEN eventHandlers[event] ELSE @]
    /\ wsOut' = [NoWsOut EXCEPT
                   !.op = "off", !.event = event,
                   !.fn = eventHandlers[event],
                   !.returned = IF eventHandlers[event] # NULL
                                THEN "true" ELSE "false"]
    /\ listeners' = listeners
    /\ RegFrame

\* io.on('connection'): eventHandlers.forEach attaches to the socket one
\* listener per entry, each closing over the handler the entry holds now
Connection(c) ==
    /\ ~listeners[c].open
    /\ listeners' = [listeners EXCEPT ![c] =
            [open |-> TRUE,
             attached |-> {<<e, eventHandlers[e]>> :
                       e \in {x \in EventNames : eventHandlers[x] # NULL}}]]
    /\ registry' = [registry EXCEPT !.seen[c] = registry.latest]
    /\ wsOut' = [NoWsOut EXCEPT !.op = "connection", !.socket = c]
    /\ eventHandlers' = eventHandlers
    /\ RegFrame

\* the socket closes: it and its listeners are gone
Close(c) ==
    /\ listeners[c].open
    /\ listeners' = [listeners EXCEPT ![c] = NoListeners]
    /\ registry' = [registry EXCEPT !.seen[c] = NoHandlers]
    /\ wsOut' = [NoWsOut EXCEPT !.op = "disconnect", !.socket = c]
    /\ eventHandlers' = eventHandlers
    /\ RegFrame

\* the handlers run by the listeners of a set of <<event, handler>> pairs
\* for one event, one call each
RECURSIVE Calls(_, _)
Calls(attached, event) ==
    IF \A l \in attached : l[1] # event THEN <<>>
    ELSE LET l == CHOOSE x \in attached : x[1] = event
         IN <<l[2]>> \o Calls(attached \ {l}, event)

\* the client emits an event on an open socket: every listener the
\* socket has for that event name runs its handler
ClientEvent(c, event) ==
    /\ listeners[c].open
    /\ wsOut' = [NoWsOut EXCEPT !.op = "event", !.event = event,
                                !.socket = c,
                                !.invoked = Calls(listeners[c].attached, event)]
    /\ UNCHANGED <<eventHandlers, listeners, registry>>
    /\ RegFrame

NextRegistry ==
    \/ \E e \in EventNames, f \in HandlerFns : on(e, f)
    \/ \E e \in EventNames : off(e)
    \/ \E c \in Conns : Connection(c)
    \/ \E c \in Conns : Close(c)
    \/ \E c \in Conns, e \in EventNames : ClientEvent(c, e)

SpecRegistry == Init /\ [][NextRegistry]_vars

\* ---------------------------------------------------------------------
\* Refresh tokens: tokenService and refreshTokenRepository (every query
\* goes through the pool and commits on its own)
\* ---------------------------------------------------------------------
DaySec == 24 * 60 * 60
\* the step of the clock: a token signed one step ago is inside the
\* rotation threshold, one signed two steps ago has expired
AuthTickSec == (REFRESH_TOKEN_EXPIRES_DAYS - REFRESH_ROTATE_THRESHOLD_DAYS)
                 * DaySec

AuthFrame == UNCHANGED <<ledgerVars, storeVars, rtVars, last, txVars,
                         regVars, mqVars>>

AuthTick ==
    /\ nowSec + AuthTickSec <= MaxAuthTicks * AuthTickSec
    /\ nowSec' = nowSec + AuthTickSec
    /\ authOut' = NoAuthOut
    /\ UNCHANGED <<refresh_tokens, nextTok, rt, rotations>>
    /\ AuthFrame

\* signRefreshToken + saveRefreshToken: a fresh token for userId, stored
\* under its hash with the expiry of its JWT
signRefreshToken(userId) ==
    [stored |-> TRUE, user_id |-> userId,
     expires_at |-> nowSec + REFRESH_TOKEN_EXPIRES_DAYS * DaySec,
     revoked |-> FALSE]

\* login or registration: createRefreshToken(user.id)
createRefreshToken(userId) ==
    /\ nextTok <= MaxTokens
    /\ refresh_tokens' = [refresh_tokens EXCEPT ![nextTok] =
                             signRefreshToken(userId)]
    /\ nextTok' = nextTok + 1
    /\ authOut' = [NoAuthOut EXCEPT !.op = "createRefreshToken",
                                    !.sub = userId, !.kind = "ok",
                                    !.newToken = nextTok]
    /\ UNCHANGED <<nowSec, rt, rotations>>
    /\ AuthFrame

\* the row of a presented token (none for the token without a row)
RowOf(t) == IF t = Rowless THEN NoTokenRow ELSE refresh_tokens[t]

\* jwt.verify of a refresh token: the signature is good, the exp claim
\* (the expires_at of its row) must lie in the future
verifyRefreshJwt(t) == t = Rowless \/ nowSec < refresh_tokens[t].expires_at

\* the call ends
AuthEnd(p, kind, rotated, newToken) ==
    /\ rt' = [rt EXCEPT ![p] = NoRt]
    /\ authOut' = [op |-> "rotateRefreshTokenIfNeeded",
                   token |-> rt[p].token, verified |-> TRUE,
                   wasRevoked |-> rt[p].wasRevoked, sub |-> rt[p].sub,
                   kind |-> kind, rotated |-> rotated,
                   newToken |-> newToken]

\* rotateRefreshTokenIfNeeded(token) is called with a token signed for
\* sub: verifyRefreshJwt throws at once, or the lookup is awaited
rotateRefreshTokenIfNeeded(p, t, sub) ==
    /\ rt[p].pc = "idle"
    /\ IF t = Rowless THEN TRUE
       ELSE refresh_tokens[t].stored /\ sub = refresh_tokens[t].user_id
    /\ IF verifyRefreshJwt(t)
       THEN /\ rt' = [rt EXCEPT ![p] =
                       [pc |-> "v_find", token |-> t,
                        wasRevoked |-> RowOf(t).revoked, sub |-> sub]]
            /\ authOut' = NoAuthOut
       ELSE /\ rt' = rt
            /\ authOut' = [op |-> "rotateRefreshTokenIfNeeded",
                           token |-> t, verified |-> FALSE,
                           wasRevoked |-> RowOf(t).revoked, sub |-> sub,
                           kind |-> "invalid_refresh_token",
                           rotated |-> NULL, newToken |-> None]
    /\ UNCHANGED <<nowSec, refresh_tokens, nextTok, rotations>>
    /\ AuthFrame

\* findByHash: the row if it is not revoked and not expired
findByHash(t) ==
    IF RowOf(t).stored /\ ~RowOf(t).revoked /\ RowOf(t).expires_at > nowSec
    THEN RowOf(t) ELSE NoTokenRow

\* verifyRefreshToken: findByHash; with an active row the remaining
\* lifetime decides between rotating and returning the token as it is
VerifyFind(p) ==
    /\ rt[p].pc = "v_find"
    /\ LET r == findByHash(rt[p].token)
       IN IF r = NoTokenRow
          THEN /\ rt' = [rt EXCEPT ![p].pc = "v_any"]
               /\ authOut' = NoAuthOut
          ELSE IF r.expires_at - nowSec
                     <= REFRESH_ROTATE_THRESHOLD_DAYS * DaySec
               THEN /\ rt' = [rt EXCEPT ![p].pc = "r_revoke"]
                    /\ authOut' = NoAuthOut
               ELSE AuthEnd(p, "ok", "false", rt[p].token)
    /\ UNCHANGED <<nowSec, refresh_tokens, nextTok, rotations>>
    /\ AuthFrame

\* verifyRefreshToken: findAnyByHash; a revoked row means reuse, anything
\* else refresh_token_not_found
VerifyAny(p) ==
    /\ rt[p].pc = "v_any"
    /\ IF RowOf(rt[p].token).stored /\ RowOf(rt[p].token).revoked
       THEN /\ rt' = [rt EXCEPT ![p].pc = "v_all"]
            /\ authOut' = NoAuthOut
       ELSE AuthEnd(p, "refresh_token_not_found", NULL, None)
    /\ UNCHANGED <<nowSec, refresh_tokens, nextTok, rotations>>
    /\ AuthFrame

\* a reuse that revokes the presented token only
revokeAllForUser_OnlyPresented(p) ==
    /\ rt[p].pc = "v_all"
    /\ refresh_tokens' = [refresh_tokens EXCEPT
                             ![rt[p].token].revoked = TRUE]
    /\ AuthEnd(p, "refresh_token_reuse_detected", NULL, None)
    /\ UNCHANGED <<nowSec, nextTok, rotations>>
    /\ AuthFrame

\* revokeAllForUser(any.user_id), then the reuse error is thrown
revokeAllForUser(p) ==
    /\ rt[p].pc = "v_all"
    /\ refresh_tokens' =
          [t \in TokenIds |->
             IF refresh_tokens[t].stored
                /\ refresh_tokens[t].user_id
                      = refresh_tokens[rt[p].token].user_id
             THEN [refresh_tokens[t] EXCEPT !.revoked = TRUE]
             ELSE refresh_tokens[t]]
    /\ AuthEnd(p, "refresh_token_reuse_detected", NULL, None)
    /\ UNCHANGED <<nowSec, nextTok, rotations>>
    /\ AuthFrame

\* revokeRefreshToken(token): UPDATE ... SET revoked = true WHERE token_hash
revokeByHash(p) ==
    /\ rt[p].pc = "r_revoke"
    /\ refresh_tokens' = [refresh_tokens EXCEPT
                             ![rt[p].token].revoked = TRUE]
    /\ rt' = [rt EXCEPT ![p].pc = "r_create"]
    /\ authOut' = NoAuthOut
    /\ UNCHANGED <<nowSec, nextTok, rotations>>
    /\ AuthFrame

\* createRefreshToken(payload.sub); return {rotated: true, token: newToken}
RotateCreate(p) ==
    /\ rt[p].pc = "r_create"
    /\ nextTok <= MaxTokens
    /\ refresh_tokens' = [refresh_tokens EXCEPT ![nextTok] =
                             signRefreshToken(rt[p].sub)]
    /\ nextTok' = nextTok + 1
    /\ rotations' = [rotations EXCEPT ![rt[p].token] = @ + 1]
    /\ AuthEnd(p, "ok", "true", nextTok)
    /\ nowSec' = nowSec
    /\ AuthFrame

NextAuth ==
    \/ AuthTick
    \/ \E u \in Users : createRefreshToken(u)
    \/ \E p \in Procs, t \in TokenIds \cup {Rowless}, u \in Users :
            rotateRefreshTokenIfNeeded(p, t, u)
    \/ \E p \in Procs : VerifyFind(p)
    \/ \E p \in Procs : VerifyAny(p)
    \/ \E p \in Procs : revokeAllForUser(p)
    \/ \E p \in Procs : revokeByHash(p)
    \/ \E p \in Procs : RotateCreate(p)

SpecAuth == Init /\ [][NextAuth]_vars

\* ---------------------------------------------------------------------
\* lib/rabbitmq: connect, consume and the consumer callback
\* ---------------------------------------------------------------------
MqFrame == UNCHANGED <<ledgerVars, storeVars, rtVars, last, txVars, regVars,
                       authVars>>

\* connect(url): the connection and its channel are there
connect ==
    /\ channel = NULL
    /\ ~consumer.registered
    /\ channel' = "channel"
    /\ UNCHANGED <<consumer, msgs, nextMsg>>
    /\ MqFrame

\* conn.on('close') / conn.on('error'): connection = null; channel = null.
\* The broker stops delivering to the consumer of the lost channel.
ConnectionClosed ==
    /\ channel # NULL
    /\ channel' = NULL
    /\ UNCHANGED <<consumer, msgs, nextMsg>>
    /\ MqFrame

\* a message arrives in the queue
Enqueue(body) ==
    /\ nextMsg <= MaxDeliveries
    /\ msgs' = [msgs EXCEPT ![nextMsg] =
                   [NoMsg EXCEPT !.state = "queued", !.body = body]]
    /\ nextMsg' = nextMsg + 1
    /\ UNCHANGED <<channel, consumer>>
    /\ MqFrame

\* consume(queue, handler, options): prefetch defaults to 1, noAck to
\* false; channel.prefetch is called only for a prefetch above 0
consume(noAck, prefetch) ==
    /\ channel # NULL
    /\ ~consumer.registered
    /\ consumer' = [registered |-> TRUE, noAck |-> noAck,
                    prefetch |-> prefetch]
    /\ UNCHANGED <<channel, msgs, nextMsg>>
    /\ MqFrame

\* the deliveries the broker still waits to have settled
Unsettled ==
    {m \in MsgIds : /\ msgs[m].state \in {"handling", "done"}
                    /\ ~msgs[m].noAck
                    /\ msgs[m].acks + msgs[m].nacks = 0}

\* if (!noAck && channel)
MaySettle == ~consumer.noAck /\ channel # NULL

\* the broker delivers the oldest queued message (with a prefetch above 0
\* only while fewer deliveries than that are unsettled) and the callback
\* runs up to its first await: JSON.parse throws on a body that is no
\* JSON, which is nacked at once; otherwise the handler is called
Deliver(m) ==
    /\ consumer.registered
    /\ channel # NULL
    /\ msgs[m].state = "queued"
    /\ \A k \in MsgIds : k < m => msgs[k].state \in {"handling", "done"}
    /\ consumer.noAck \/ consumer.prefetch = 0
          \/ Cardinality(Unsettled) < consumer.prefetch
    /\ msgs' = [msgs EXCEPT ![m] =
          IF msgs[m].body = "json"
          THEN [@ EXCEPT !.state = "handling", !.noAck = consumer.noAck]
          ELSE [@ EXCEPT !.state = "done", !.noAck = consumer.noAck,
                         !.outcome = "unparsable",
                         !.connected = TRUE,
                         !.nacks = IF MaySettle THEN @ + 1 ELSE @]]
    /\ UNCHANGED <<channel, consumer, nextMsg>>
    /\ MqFrame

\* the handler's promise resolves: channel.ack(msg)
HandlerReturns(m) ==
    /\ msgs[m].state = "handling"
    /\ msgs' = [msgs EXCEPT ![m] =
          [@ EXCEPT !.state = "done", !.outcome = "ok",
                    !.connected = channel # NULL,
                    !.acks = IF MaySettle THEN @ + 1 ELSE @]]
    /\ UNCHANGED <<channel, consumer, nextMsg>>
    /\ MqFrame

\* a catch block that puts the failed message back into the queue
HandlerRejects_Requeue(m) ==
    /\ msgs[m].state = "handling"
    /\ msgs' = [msgs EXCEPT ![m] =
          [@ EXCEPT !.state = "done", !.outcome = "threw",
                    !.connected = channel # NULL,
                    !.nacks = IF MaySettle THEN @ + 1 ELSE @,
                    !.requeued = MaySettle]]
    /\ UNCHANGED <<channel, consumer, nextMsg>>
    /\ MqFrame

\* the handler throws or its promise rejects: the error is logged and
\* channel.nack(msg, false, false) is called
HandlerRejects(m) ==
    /\ msgs[m].state = "handling"
    /\ msgs' = [msgs EXCEPT ![m] =
          [@ EXCEPT !.state = "done", !.outcome = "threw",
                    !.connected = channel # NULL,
                    !.nacks = IF MaySettle THEN @ + 1 ELSE @]]
    /\ UNCHANGED <<channel, consumer, nextMsg>>
    /\ MqFrame

NextMq ==
    \/ connect
    \/ ConnectionClosed
    \/ \E body \in Bodies : Enqueue(body)
    \/ \E noAck \in BOOLEAN, prefetch \in {0, 1} : consume(noAck, prefetch)
    \/ \E m \in MsgIds : Deliver(m)
    \/ \E m \in MsgIds : HandlerReturns(m)
    \/ \E m \in MsgIds : HandlerRejects(m)

SpecMq == Init /\ [][NextMq]_vars

\* =====================================================================
\* Properties
\* =====================================================================
Terminal == {"accepted", "rejected", "blocked"}
Stored(id) == requests[id] # NoRow

\* the step is the end of a call of handler p
Ends(p) == pc[p] # "idle" /\ pc'[p] = "idle"

\* C1: for every unordered pair of distinct users, every reachable store
\* state holds at most one pending chat request between them, whatever the
\* interleaving of the check and insert steps of concurrent sendRequest
\* calls from both sides.
C1_AtMostOnePending ==
    \A a \in Users, b \in Users :
        a # b => Cardinality(findPendingBetween(a, b)) <= 1

\* a sendRequest that passed the pending check lost the race at the INSERT
\* against the request of the other side, which is stored and pending
C1_Witness ==
    /\ last.name = "sendRequest"
    /\ last.kind = "REQUEST_EXISTS"
    /\ last.step = "s_ins"
    /\ \E id \in ReqIds : /\ Stored(id)
                          /\ requests[id].status = "pending"
                          /\ requests[id].sender_id = last.b
                          /\ requests[id].receiver_id = last.a

\* C2: of the respondRequest calls made on one request at most one
\* succeeds (the others fail with ALREADY_RESPONDED or NOT_FOUND).
C2_OneRespondSucceeds == \A id \in ReqIds : okResponds[id] <= 1

\* C3: a respondRequest call that accepts is all-or-nothing: the step that
\* ends it either reports success and leaves the request accepted together
\* with one new chat and exactly its two memberships, or reports an error
\* and leaves requests, chats and memberships as they were.
C3_AcceptAllOrNothing ==
    [][\A p \in Procs :
         (Ends(p) /\ call[p].name = "respondRequest" /\ call[p].accept) =>
            \/ /\ last'.kind = "ok"
               /\ requests'[call[p].id] # NoRow
               /\ requests'[call[p].id].status = "accepted"
               /\ last'.request = requests'[call[p].id]
               /\ \E c \in chats' \ chats :
                     /\ c.id = last'.chat
                     /\ chats' = chats \cup {c}
                     /\ chat_members' \ chat_members =
                           {m \in chat_members' : m.chat_id = c.id}
                     /\ Cardinality(chat_members' \ chat_members) = 2
            \/ /\ last'.kind # "ok"
               /\ UNCHANGED <<requests, chats, chat_members>>]_vars

\* C4: a connection is in a room only if the user it authenticated as has
\* a membership in that chat (chat:join by a non-member fails and does not
\* add the connection to the room).
C4_JoinRequiresMembership ==
    \A c \in Conns : sockets[c].connected =>
        \A r \in rooms[c] :
            \E m \in chat_members :
                m.chat_id = r /\ m.user_id = sockets[c].sub

\* the chat:new_message events for chat r in a sequence of events
NewMessages(box, r) ==
    {i \in 1..Len(box) : box[i].event = "chat:new_message"
                          /\ box[i].chatId = r}

\* C5: a valid chat:send_message for room R delivers exactly one
\* chat:new_message to every connection joined to R at the broadcast, the
\* sending connection included, and nothing to any other connection.
C5_SendReachesExactlyRoom ==
    (last.name = "chat:send_message" /\ last.kind = "ok") =>
        \A c \in Conns :
            IF sockets[c].connected /\ last.chat \in rooms[c]
            THEN /\ Cardinality(NewMessages(inbox[c], last.chat)) = 1
                 /\ Len(inbox[c]) = 1
            ELSE inbox[c] = <<>>

\* the sender and another connection of the same user are joined to the
\* room, a third live connection is not
C5_Witness ==
    /\ last.name = "chat:send_message"
    /\ last.kind = "ok"
    /\ last.chat \in rooms[last.a]
    /\ \E c \in Conns \ {last.a} :
          /\ sockets[c].connected
          /\ sockets[c].sub = sockets[last.a].sub
          /\ last.chat \in rooms[c]
    /\ \E d \in Conns : sockets[d].connected /\ last.chat \notin rooms[d]

\* C6: cancelRequest never deletes a row whose status is no longer
\* pending, under every interleaving with a concurrent respondRequest.
C6_CancelOnlyPending ==
    [][\A id \in ReqIds :
         (Stored(id) /\ requests'[id] = NoRow) =>
            requests[id].status = "pending"]_vars

\* C7: once a row is accepted, rejected or blocked no step changes its
\* status, responded_at, rejected_reason or cooldown_until.
C7_TerminalImmutable ==
    [][\A id \in ReqIds :
         (Stored(id) /\ requests[id].status \in Terminal
            /\ requests'[id] # NoRow) =>
            requests'[id] = requests[id]]_vars

\* a rejected request from s to r whose cooldown is (not) over
RejectedFrom(s, r, active) ==
    \E id \in ReqIds :
        /\ Stored(id)
        /\ requests[id].sender_id = s
        /\ requests[id].receiver_id = r
        /\ requests[id].status = "rejected"
        /\ (requests[id].cooldown_until > now) = active

Free(a, b) ==
    ~hasPrivateChatBetween(a, b) /\ findPendingBetween(a, b) = {}

Inserted(p) ==
    /\ last'.kind = "ok"
    /\ \E id \in ReqIds :
          /\ ~Stored(id)
          /\ requests' = [requests EXCEPT ![id] =
                             NewRow(id, call[p].a, call[p].b)]

\* C8: after the receiver rejected the sender's request, the sender's
\* sendRequest fails with COOLDOWN_ACTIVE while now < cooldown_until, and
\* at now >= cooldown_until, with no private chat and no pending request
\* between the two, it succeeds and inserts a new pending request.
C8_CooldownThenResubmit ==
    [][\A p \in Procs :
         /\ (pc[p] = "s_cool" /\ pc'[p] # "s_cool"
              /\ RejectedFrom(call[p].a, call[p].b, TRUE)) =>
                last'.kind = "COOLDOWN_ACTIVE"
         /\ (pc[p] = "s_ins" /\ Ends(p)
              /\ RejectedFrom(call[p].a, call[p].b, FALSE)
              /\ ~RejectedFrom(call[p].a, call[p].b, TRUE)
              /\ Free(call[p].a, call[p].b)) =>
                Inserted(p)]_vars

\* C9: the cooldown is directional: while the cooldown of a rejected
\* request from A to B is active, sendRequest from B to A is not blocked
\* by it and inserts a pending request.
C9_CooldownDirectional ==
    [][\A p \in Procs :
         (pc[p] = "s_ins" /\ Ends(p)
          /\ RejectedFrom(call[p].b, call[p].a, TRUE)
          /\ Free(call[p].a, call[p].b)) =>
            Inserted(p)]_vars

\* C10: once a request between A and B has been answered with block,
\* every later sendRequest between them, in either direction, fails and
\* inserts no request.
C10_BlockIsPermanent ==
    [][\A p \in Procs :
         (Ends(p) /\ call[p].name = "sendRequest"
          /\ Pair(call[p].a, call[p].b) \in blockedPairs) =>
            (last'.kind # "ok" /\ requests' = requests)]_vars

FirstFailing(a, b) ==
    IF a = b THEN "INVALID_REQUEST"
    ELSE IF hasPrivateChatBetween(a, b) THEN "CHAT_EXISTS"
    ELSE IF hasActiveRejectedCooldown(a, b) THEN "COOLDOWN_ACTIVE"
    ELSE IF findPendingBetween(a, b) # {} THEN "REQUEST_EXISTS"
    ELSE "none"

\* C12: a sendRequest call returns the error of the first check that
\* fails, in the order INVALID_REQUEST, CHAT_EXISTS, COOLDOWN_ACTIVE,
\* REQUEST_EXISTS, also when several of the conditions hold together, and
\* a call that returns one of these errors inserts no row.
C12_FirstFailingCheck ==
    [][(last'.name = "sendRequest"
         /\ FirstFailing(last'.a, last'.b) # "none") =>
            /\ last'.kind = FirstFailing(last'.a, last'.b)
            /\ requests' = requests
            /\ nextReq' = nextReq]_vars

\* CHAT_EXISTS was returned while the sender's cooldown was active too
C12_Witness ==
    /\ last.name = "sendRequest"
    /\ last.kind = "CHAT_EXISTS"
    /\ hasPrivateChatBetween(last.a, last.b)
    /\ hasActiveRejectedCooldown(last.a, last.b)

\* C13: when the INSERT of sendRequest violates the pair index (a
\* competing sendRequest committed after the pending check), the call
\* fails with REQUEST_EXISTS, never with a storage error, and stores no
\* further row.
C13_DuplicateInsertTranslated ==
    [][\A p \in Procs :
         (pc[p] = "s_ins" /\ pc'[p] # "s_ins"
          /\ chat_requests_pair_unique(call[p].a, call[p].b)) =>
            /\ last'.kind = "REQUEST_EXISTS"
            /\ requests' = requests
            /\ nextReq' = nextReq]_vars

\* two sendRequest calls of the same sender to the same receiver both
\* passed the pending check; the second INSERT was refused
C13_Witness ==
    /\ last.name = "sendRequest"
    /\ last.kind = "REQUEST_EXISTS"
    /\ last.step = "s_ins"
    /\ \E id \in ReqIds : /\ Stored(id)
                          /\ requests[id] = NewRow(id, last.a, last.b)
    /\ Cardinality({id \in ReqIds : Stored(id)}) = 1

\* C14: respondRequest fails with NOT_FOUND when the row does not exist,
\* with FORBIDDEN when the caller is not the receiver of the request and
\* with ALREADY_RESPONDED when the row it reads is not pending; a call that
\* ends with one of these errors leaves the request row as it was and
\* stores no chat and no membership.
C14_RespondErrors ==
    [][\A p \in Procs :
         /\ \A auth \in Users :
               loadChatRequest(p, auth) =>
                  IF findById(call[p].id) = NoRow
                  THEN last'.kind = "NOT_FOUND"
                  ELSE IF findById(call[p].id).receiver_id # auth
                       THEN last'.kind = "FORBIDDEN"
                       ELSE pc'[p] = "r_begin"
         /\ (pc[p] = "r_find" /\ pc'[p] # "r_find") =>
               IF findById(call[p].id) = NoRow
               THEN last'.kind = "NOT_FOUND"
               ELSE IF findById(call[p].id).status # "pending"
                    THEN last'.kind = "ALREADY_RESPONDED"
                    ELSE pc'[p] \in {"r_chat", "r_upd"}
         /\ (Ends(p) /\ call[p].name = "respondRequest"
               /\ last'.kind \in {"NOT_FOUND", "FORBIDDEN",
                                  "ALREADY_RESPONDED"}) =>
               UNCHANGED <<requests, chats, chat_members>>]_vars

\* respondRequest on an accepted request returned ALREADY_RESPONDED and the
\* chat of the first answer is still the only one
C14_Witness ==
    /\ last.name = "respondRequest"
    /\ last.kind = "ALREADY_RESPONDED"
    /\ Stored(last.id)
    /\ requests[last.id].status = "accepted"
    /\ Cardinality(chats) = 1
    /\ Cardinality(chat_members) = 2

\* C15: cancelRequest fails with NOT_FOUND when the row does not exist,
\* with FORBIDDEN when the caller is not the sender of the request and
\* with ALREADY_RESPONDED when the row it reads is not pending; a call that
\* ends with one of these errors leaves the stored rows as they were.
C15_CancelErrors ==
    [][\A p \in Procs :
         /\ \A user \in Users :
               CancelFind(p, user) =>
                  IF findById(call[p].id) = NoRow
                  THEN last'.kind = "NOT_FOUND"
                  ELSE IF findById(call[p].id).sender_id # user
                       THEN last'.kind = "FORBIDDEN"
                       ELSE IF findById(call[p].id).status # "pending"
                            THEN last'.kind = "ALREADY_RESPONDED"
                            ELSE pc'[p] = "c_del"
         /\ (Ends(p) /\ call[p].name = "cancelRequest"
               /\ last'.kind \in {"NOT_FOUND", "FORBIDDEN",
                                  "ALREADY_RESPONDED"}) =>
               UNCHANGED <<requests, chats, chat_members>>]_vars

\* the receiver of a pending request tried to cancel it: FORBIDDEN, and the
\* request is still stored and pending
C15_Witness ==
    /\ last.name = "cancelRequest"
    /\ last.kind = "FORBIDDEN"
    /\ Stored(last.id)
    /\ requests[last.id].status = "pending"

C17_CooldownSevenDaysAfterResponse ==
    \A id \in ReqIds :
        (Stored(id) /\ requests[id].status = "rejected") =>
            /\ requests[id].rejected_reason \in Reasons
            /\ requests[id].responded_at # None
            /\ requests[id].cooldown_until =
                  requests[id].responded_at + COOLDOWN_MS

\* C18: in every store state every chat of type private has exactly two
\* memberships, whether respondRequest created it or createChat did.
C18_PrivateHasTwoMembers ==
    \A c \in chats :
        c.type = "private" =>
            Cardinality({m \in chat_members : m.chat_id = c.id}) = 2

\* the member ids of a payload, as a set
Range(member_ids) == {member_ids[i] : i \in 1..Len(member_ids)}

\* C19: createChat with an empty member_ids fails with INVALID_INPUT and
\* stores nothing; with a non-empty member_ids of which one insert fails
\* (a repeated user id against unique (chat_id, user_id)) it fails and
\* neither the chat nor any membership of it is stored; otherwise the chat
\* and one membership per member id are stored.
C19_CreateChatAllOrNothing ==
    [][\A type \in ChatTypes :
         \A n \in 0..MaxMembers :
            \A member_ids \in [1..n -> Users] :
               createChat(type, NULL, member_ids) =>
                  IF n = 0
                  THEN /\ last'.kind = "INVALID_INPUT"
                       /\ UNCHANGED <<chats, chat_members>>
                  ELSE IF Cardinality(Range(member_ids)) < n
                       THEN /\ last'.kind \notin {"ok", "INVALID_INPUT"}
                            /\ UNCHANGED <<chats, chat_members>>
                       ELSE /\ last'.kind = "ok"
                            /\ Cardinality(chats' \ chats) = 1
                            /\ \A c \in chats' \ chats :
                                  /\ c.id = last'.chat
                                  /\ chat_members' \ chat_members =
                                        {[chat_id |-> c.id, user_id |-> u,
                                          role |-> "member"] :
                                             u \in Range(member_ids)}]_vars

\* a createChat whose second membership insert repeated the first user id
\* failed and the store is still empty
C19_Witness ==
    /\ last.name = "createChat"
    /\ last.kind = "STORAGE_ERROR"
    /\ chats = {}
    /\ chat_members = {}

\* C20: a connection that disconnected is in no room: in every state in
\* which it is not connected it belongs to the member set of no room and
\* no event emitted by a handler is delivered to it.
C20_DisconnectLeavesAllRooms ==
    \A c \in Conns :
        ~sockets[c].connected =>
            /\ rooms[c] = {}
            /\ \A r \in RoomIds : c \notin SocketsIn(rooms, r)
            /\ inbox[c] = <<>>

\* a connection that had joined a room disconnected while another
\* connection stays in that room
C20_Witness ==
    /\ last.name = "disconnect"
    /\ last.left # {}
    /\ ~sockets[last.a].connected
    /\ \E d \in Conns \ {last.a} :
          sockets[d].connected /\ rooms[d] \cap last.left # {}

\* C21: the handshake fails closed: a handshake with no token or with a
\* token that does not verify is refused with an error and produces no
\* connection, so no handler runs for it and it is in no room; only a
\* handshake with a verifying token produces a connection.
C21_HandshakeFailsClosed ==
    [][/\ \A c \in Conns, token \in Tokens :
             (/\ last'.name = "connect"
              /\ last'.a = c
              /\ Connect(c, token)) =>
                IF token.kind = "signed"
                THEN /\ sockets'[c].connected
                     /\ sockets'[c].sub = token.sub
                     /\ last'.kind = "ok"
                ELSE /\ ~sockets'[c].connected
                     /\ last'.kind = "error"
                     /\ rooms' = rooms
                     /\ inbox'[c] = <<>>
       /\ \A c \in Conns :
             /\ (sockets'[c].connected /\ ~sockets[c].connected) =>
                   (last'.name = "connect" /\ last'.kind = "ok")
             /\ rooms'[c] # {} => sockets'[c].connected
             /\ (last'.a = c /\ last'.name \notin {NULL, "connect"}) =>
                   sockets[c].connected]_vars

\* a handshake was refused while another connection is open and in a room
C21_Witness ==
    /\ last.name = "connect"
    /\ last.kind = "error"
    /\ ~sockets[last.a].connected
    /\ rooms[last.a] = {}
    /\ \E d \in Conns : sockets[d].connected /\ rooms[d] # {}

\* C22: the events of one socket take effect in the order received: while
\* the handler of an event of the socket has not finished, the next step
\* taken for that socket is the rest of that handler, never an effect of
\* the handler of a later event.
C22_EventsInOrder ==
    [][\A c \in Conns :
         (awaiting[c] # NoTask /\ last'.a = c /\ last'.name # NULL) =>
            /\ last'.name = awaiting[c].event
            /\ awaiting'[c] = NoTask]_vars

\* the step answered socket c with one error event naming ev, to c only,
\* changed no room and closed no connection
Rejected(c, ev) ==
    /\ last'.kind = "error"
    /\ inbox' = [d \in Conns |->
                    IF d = c
                    THEN <<[NoEvent EXCEPT !.event = "error", !.of = ev]>>
                    ELSE <<>>]
    /\ rooms' = rooms
    /\ sockets' = sockets
    /\ sockets'[c].connected

\* C23: for chat:join, chat:leave, chat:send_message, chat:mark_read and
\* chat:get_online_users a malformed payload (missing or malformed chatId,
\* empty or over-long content, missing messageId) is answered with an
\* error event naming the client event, sent to the originating socket
\* only; no room changes, nothing is broadcast, the connection stays open.
C23_MalformedPayloadRejected ==
    [][\A c \in Conns :
         last'.a = c =>
            /\ (last'.name = "chat:join" /\ ChatJoin(c, None))
                  => Rejected(c, "chat:join")
            /\ (last'.name = "chat:leave" /\ ChatLeave(c, None))
                  => Rejected(c, "chat:leave")
            /\ last'.name = "chat:send_message" =>
                  \A chatId \in RoomIds \cup {None}, len \in ContentLens :
                     (/\ chatId = None \/ len < ContentMin \/ len > ContentMax
                      /\ ChatSendMessage(c, chatId, len))
                        => Rejected(c, "chat:send_message")
            /\ last'.name = "chat:mark_read" =>
                  \A chatId \in RoomIds \cup {None},
                     messageId \in MessageIds \cup {None} :
                     (/\ chatId = None \/ messageId = None
                      /\ ChatMarkRead(c, chatId, messageId))
                        => Rejected(c, "chat:mark_read")
            /\ (last'.name = "chat:get_online_users"
                  /\ ChatGetOnlineUsers(c, None))
                  => Rejected(c, "chat:get_online_users")]_vars

\* a chat:send_message with a bad content for a room in which another
\* socket is joined was refused
C23_Witness ==
    /\ last.name = "chat:send_message"
    /\ last.kind = "error"
    /\ last.chat \in RoomIds
    /\ Len(inbox[last.a]) = 1
    /\ \E d \in Conns \ {last.a} :
          sockets[d].connected /\ last.chat \in rooms[d] /\ inbox[d] = <<>>

\* C24: a valid chat:typing for room R is delivered as chat:user_typing to
\* every socket joined to R other than the originating one and never to
\* the originating one; a malformed chat:typing is dropped: no error
\* reply, no broadcast.
C24_TypingToOthersOnly ==
    [][\A c \in Conns :
         (last'.a = c /\ last'.name = "chat:typing") =>
            \A chatId \in RoomIds \cup {None}, isTyping \in TypingValues :
               ChatTyping(c, chatId, isTyping) =>
                  /\ rooms' = rooms
                  /\ sockets' = sockets
                  /\ IF chatId \in RoomIds /\ isTyping \in {"true", "false"}
                     THEN \A d \in Conns :
                             IF d # c /\ sockets[d].connected
                                /\ chatId \in rooms[d]
                             THEN /\ Len(inbox'[d]) = 1
                                  /\ inbox'[d][1].event = "chat:user_typing"
                                  /\ inbox'[d][1].chatId = chatId
                                  /\ inbox'[d][1].isTyping = isTyping
                             ELSE inbox'[d] = <<>>
                     ELSE \A d \in Conns : inbox'[d] = <<>>]_vars

\* a socket joined to a room sent chat:typing for it: another socket of the
\* room got chat:user_typing, the sender nothing
C24_Witness ==
    /\ last.name = "chat:typing"
    /\ last.kind = "ok"
    /\ last.chat \in rooms[last.a]
    /\ inbox[last.a] = <<>>
    /\ \E d \in Conns \ {last.a} :
          /\ last.chat \in rooms[d]
          /\ Len(inbox[d]) = 1
          /\ inbox[d][1].event = "chat:user_typing"

\* the sockets other than c get one event named ev for room R when they
\* are joined to R and nothing otherwise
OthersNotified(c, R, ev) ==
    \A d \in Conns \ {c} :
        IF sockets[d].connected /\ R \in rooms[d]
        THEN /\ Len(inbox'[d]) = 1
             /\ inbox'[d][1].event = ev
             /\ inbox'[d][1].chatId = R
        ELSE inbox'[d] = <<>>

\* C25: a valid chat:join for room R adds the socket to R, sends
\* chat:joined to that socket only and chat:user_joined to every other
\* socket joined to R; a valid chat:leave removes the socket from R and
\* sends chat:user_left to the sockets that remain in R; a socket that is
\* not joined to R gets neither notification.
C25_JoinLeaveNotify ==
    [][\A c \in Conns, R \in RoomIds :
         /\ (last'.a = c /\ last'.name = "chat:join" /\ ChatJoin(c, R)) =>
               /\ rooms' = [rooms EXCEPT ![c] = rooms[c] \cup {R}]
               /\ Len(inbox'[c]) = 1
               /\ inbox'[c][1].event = "chat:joined"
               /\ inbox'[c][1].chatId = R
               /\ OthersNotified(c, R, "chat:user_joined")
         /\ (last'.a = c /\ last'.name = "chat:leave" /\ ChatLeave(c, R)) =>
               /\ rooms' = [rooms EXCEPT ![c] = rooms[c] \ {R}]
               /\ \A i \in 1..Len(inbox'[c]) :
                     inbox'[c][i].event # "chat:user_left"
               /\ OthersNotified(c, R, "chat:user_left")]_vars

\* a socket left a room: a socket that remains in it was notified, a
\* connected socket outside the room got nothing
C25_Witness ==
    /\ last.name = "chat:leave"
    /\ last.kind = "ok"
    /\ last.chat \notin rooms[last.a]
    /\ \E d \in Conns \ {last.a} :
          /\ last.chat \in rooms[d]
          /\ Len(inbox[d]) = 1
          /\ inbox[d][1].event = "chat:user_left"
    /\ \E e \in Conns \ {last.a} :
          sockets[e].connected /\ last.chat \notin rooms[e] /\ inbox[e] = <<>>

\* C26: a valid chat:mark_read for room R and message M from a socket
\* authenticated as user U sets last_read_message_id of U's membership in
\* chat R to M and notifies the sockets of room R.
C26_MarkReadUpdatesMembership ==
    (/\ last.name = "chat:mark_read"
     /\ last.kind = "ok"
     /\ \E m \in chat_members :
           m.chat_id = last.chat /\ m.user_id = sockets[last.a].sub) =>
        /\ last_read_message_id[last.chat][sockets[last.a].sub] = last.id
        /\ \A d \in Conns \ {last.a} :
              (sockets[d].connected /\ last.chat \in rooms[d]) =>
                 /\ Len(inbox[d]) = 1
                 /\ inbox[d][1].event = "chat:message_read"
                 /\ inbox[d][1].messageId = last.id

\* C27: chat:get_online_users for room R replies to the requesting socket
\* only, with a count equal to the number of connections joined to R (a
\* user with two joined connections counts twice), and changes no room.
C27_OnlineCountsConnections ==
    [][\A c \in Conns, R \in RoomIds :
         (/\ last'.a = c
          /\ last'.name = "chat:get_online_users"
          /\ ChatGetOnlineUsers(c, R)) =>
            /\ rooms' = rooms
            /\ sockets' = sockets
            /\ Len(inbox'[c]) = 1
            /\ inbox'[c][1].event = "chat:online_users"
            /\ inbox'[c][1].chatId = R
            /\ inbox'[c][1].count =
                  Cardinality({d \in Conns : sockets[d].connected
                                              /\ R \in rooms[d]})
            /\ \A d \in Conns \ {c} : inbox'[d] = <<>>]_vars

\* the reply counted 2 for a room joined by two connections of one user
C27_Witness ==
    /\ last.name = "chat:get_online_users"
    /\ last.kind = "ok"
    /\ Len(inbox[last.a]) = 1
    /\ inbox[last.a][1].count = 2
    /\ \E d \in Conns, e \in Conns :
          /\ d # e
          /\ last.chat \in rooms[d] /\ last.chat \in rooms[e]
          /\ sockets[d].sub = sockets[e].sub

\* C28: when the handler of a client event throws, the originating socket
\* gets an error event naming that client event, the connection stays
\* open with its rooms, and later events of the socket are still
\* dispatched to their handlers.
C28_HandlerErrorKeepsConnection ==
    /\ [][\A c \in Conns, event \in Events :
            (last'.a = c /\ last'.kind = "thrown"
             /\ HandlerThrows(c, event)) =>
               /\ inbox' = [d \in Conns |->
                     IF d = c
                     THEN <<[NoEvent EXCEPT !.event = "error", !.of = event]>>
                     ELSE <<>>]
               /\ sockets' = sockets
               /\ sockets'[c].connected
               /\ rooms' = rooms]_vars
    /\ [](last.kind = "thrown" =>
            /\ ENABLED (\E chatId \in RoomIds :
                           ChatSendMessage(last.a, chatId, ContentMin))
            /\ ENABLED (\E chatId \in RoomIds : ChatJoin(last.a, chatId)))

\* the handler of an event of a socket joined to a room threw: the socket
\* got the error event and is still connected and in the room
C28_Witness ==
    /\ last.kind = "thrown"
    /\ last.name = "chat:send_message"
    /\ sockets[last.a].connected
    /\ rooms[last.a] # {}
    /\ Len(inbox[last.a]) = 1
    /\ inbox[last.a][1].of = "chat:send_message"

\* the calls answered over REST
RestCalls == {"sendRequest", "respondRequest", "cancelRequest", "createChat"}

\* the error with which the last call ended
Escaped ==
    IF last.name = "createChat" THEN ThrownByChat(last.kind)
    ELSE Thrown(last.name, last.kind)

C29_WitnessClassified ==
    /\ last.name = "sendRequest"
    /\ last.kind = "COOLDOWN_ACTIVE"
    /\ last.res.status = 403

\* the private chats of which both a and b are members
PrivateChatsOf(a, b) ==
    {c \in chats :
        /\ c.type = "private"
        /\ \E m \in chat_members : m.chat_id = c.id /\ m.user_id = a
        /\ \E m \in chat_members : m.chat_id = c.id /\ m.user_id = b}

\* C30: under every interleaving of sendRequest, respondRequest and
\* cancelRequest calls (no direct createChat), at most one private chat
\* exists between any two users.
C30_AtMostOnePrivateChat ==
    \A a, b \in Users : a # b => Cardinality(PrivateChatsOf(a, b)) <= 1

\* the private chats whose two members have no accepted request between them
Orphans ==
    {c \in chats :
        /\ c.type = "private"
        /\ ~\E id \in ReqIds :
              /\ Stored(id)
              /\ requests[id].status = "accepted"
              /\ \E m \in chat_members :
                    m.chat_id = c.id /\ m.user_id = requests[id].sender_id
              /\ \E m \in chat_members :
                    m.chat_id = c.id /\ m.user_id = requests[id].receiver_id}

\* C31: under every interleaving of an accepting respondRequest with a
\* cancelRequest on the same request, each chat created by the accept has
\* a stored accepted request between its two members, and an accept that
\* reports success returns an accepted request.
C31_AcceptedChatHasRequest ==
    /\ Orphans = {}
    /\ (last.name = "respondRequest" /\ last.kind = "ok" /\ last.accept) =>
            (last.request # NoRow /\ last.request.status = "accepted")

\* C32: a stored chat request has a cooldown_until only if its status is
\* rejected: pending, accepted and blocked rows have none, and a blocked
\* row has no rejected_reason.
C32_CooldownOnlyWhenRejected ==
    \A id \in ReqIds :
        Stored(id) =>
            /\ requests[id].cooldown_until # None =>
                    requests[id].status = "rejected"
            /\ requests[id].status \in {"pending", "accepted", "blocked"} =>
                    requests[id].cooldown_until = None
            /\ requests[id].status = "blocked" =>
                    requests[id].rejected_reason = NULL

\* a request answered twice, the second answer a block
C32_Witness ==
    \E id \in ReqIds :
        /\ Stored(id)
        /\ requests[id].status = "blocked"
        /\ okResponds[id] = 2
        /\ last.name = "respondRequest"
        /\ last.kind = "ok"

\* the withTransaction call of p has ended
TxEnded(p) == txn[p].pc = "idle" /\ txn[p].out # NULL

\* C33: withTransaction runs fn between BEGIN and COMMIT: when fn returns,
\* COMMIT is issued and, if it succeeds, the result of fn is returned; when
\* BEGIN, fn or COMMIT throws, ROLLBACK is issued and that error is thrown
\* again even if ROLLBACK fails too; the client taken from the pool is
\* released exactly once, after the last statement.
C33_TransactionWrapper ==
    \A p \in Procs :
        /\ txn[p].released <= 1
        /\ txn[p].released = 1 => txn[p].pc = "idle"
        /\ txn[p].fn # NULL => txn[p].log[1] = "BEGIN"
        /\ (txn[p].fn = "returned" /\ txn[p].pc \notin {"commit"}) =>
                (Len(txn[p].log) >= 2 /\ txn[p].log[2] = "COMMIT")
        /\ TxEnded(p) =>
              CASE txn[p].out = "returned" ->
                      /\ txn[p].log = <<"BEGIN", "COMMIT">>
                      /\ txn[p].fn = "returned"
                      /\ txn[p].result \in Results
                      /\ txn[p].released = 1
                [] txn[p].log = <<>> ->
                      /\ txn[p].out = "thrown"
                      /\ txn[p].thrown \in {"pool not initialized",
                                            "connect failed"}
                      /\ txn[p].released = 0
                [] OTHER ->
                      /\ txn[p].out = "thrown"
                      /\ txn[p].rollback \in {"ok", "failed"}
                      /\ txn[p].released = 1
                      /\ txn[p].log[Len(txn[p].log)] = "ROLLBACK"
                      /\ txn[p].thrown =
                            (CASE txn[p].log = <<"BEGIN", "ROLLBACK">>
                                    /\ txn[p].fn = NULL -> "BEGIN failed"
                               [] txn[p].log = <<"BEGIN", "ROLLBACK">>
                                    /\ txn[p].fn = "threw" -> "fn failed"
                               [] txn[p].log =
                                     <<"BEGIN", "COMMIT", "ROLLBACK">>
                                    /\ txn[p].fn = "returned" ->
                                        "COMMIT failed"
                               [] OTHER -> NULL)

\* fn threw and ROLLBACK failed too: the call ended with the error of fn
\* and the client released
C33_Witness ==
    \E p \in Procs :
        /\ TxEnded(p)
        /\ txn[p].fn = "threw"
        /\ txn[p].rollback = "failed"
        /\ txn[p].thrown = "fn failed"
        /\ txn[p].released = 1

\* C34: a chat:new_message is delivered in a room only by a
\* chat:send_message of a socket that is in that room at that time; sent
\* by a socket that is not in the room, it is delivered to nobody.
C34_SendRequiresJoined ==
    [][\A c \in Conns :
         (/\ last'.a = c
          /\ last'.name = "chat:send_message"
          /\ last'.chat \notin rooms[c]) =>
            \A d \in Conns :
               \A i \in 1..Len(inbox'[d]) :
                  inbox'[d][i].event # "chat:new_message"]_vars

\* the events that carry the user id of the socket that caused them
UserEvents == {"chat:user_joined", "chat:user_left", "chat:new_message",
               "chat:user_typing"}

\* C35: a socket admitted with an access token signed for user U has U as
\* its user id (defined and equal to the subject of the token), and the
\* events it causes carry U as their user id.
C35_UserIdIsSubject ==
    /\ \A c \in Conns :
          sockets[c].connected =>
             (sockets[c].userId # NULL /\ sockets[c].userId = sockets[c].sub)
    /\ \A d \in Conns :
          \A i \in 1..Len(inbox[d]) :
             (inbox[d][i].event \in UserEvents /\ sockets[last.a].connected)
                => inbox[d][i].userId = sockets[last.a].sub

\* C36: registration is keyed by event name and the last registration
\* wins: a client event on a socket that connected after the on() calls
\* runs exactly one handler, the one given to the latest on() for that
\* event before the socket connected, and no earlier one.
C36_LastRegistrationWins ==
    /\ \A e \in EventNames :
          registry.latest[e] # NULL => eventHandlers[e] = registry.latest[e]
    /\ (wsOut.op = "event" /\ registry.seen[wsOut.socket][wsOut.event] # NULL)
          => wsOut.invoked = <<registry.seen[wsOut.socket][wsOut.event]>>

\* f1 and then f2 were registered for an event, a socket connected, and
\* its client event ran f2
C36_Witness ==
    /\ wsOut.op = "event"
    /\ wsOut.invoked = <<"f2">>
    /\ registry.latest[wsOut.event] = "f2"
    /\ \E d \in Conns :
          /\ d # wsOut.socket
          /\ listeners[d].open
          /\ <<wsOut.event, "f1">> \in listeners[d].attached

\* C37: off(event) returns true exactly when a handler was registered for
\* the event, and after it returned true no client event of that name runs
\* the removed handler, on sockets that connected before the call as on
\* sockets that connected after it.
C37_OffRemovesHandler ==
    /\ wsOut.op = "off" =>
          (wsOut.returned = "true" <=> wsOut.fn # NULL)
    /\ (wsOut.op = "event" /\ registry.removed[wsOut.event] # NULL) =>
          \A i \in 1..Len(wsOut.invoked) :
             wsOut.invoked[i] # registry.removed[wsOut.event]

\* C38: a refresh token inside the rotation threshold is rotated at most
\* once: of the rotateRefreshTokenIfNeeded calls presenting one token, in
\* any interleaving, at most one returns rotated = true with a new stored
\* token, and once rotated the old token is revoked.
C38_RotatedAtMostOnce ==
    \A t \in TokenIds :
        /\ rotations[t] <= 1
        /\ rotations[t] >= 1 => refresh_tokens[t].revoked

\* every stored refresh token of user u is revoked
AllRevoked(u) ==
    \A t \in TokenIds :
        (refresh_tokens[t].stored /\ refresh_tokens[t].user_id = u) =>
            refresh_tokens[t].revoked

\* a call presenting the token without a row writes nothing
RowlessWritesNothing ==
    \A p \in Procs :
        (rt[p].token = Rowless /\ rt'[p] # rt[p]) =>
            refresh_tokens' = refresh_tokens

\* a call ended that presented a token whose row was revoked
RevokedPresented ==
    authOut.op = "rotateRefreshTokenIfNeeded" /\ authOut.wasRevoked

\* a call ended that presented the token without a row
RowlessPresented ==
    authOut.op = "rotateRefreshTokenIfNeeded" /\ authOut.token = Rowless

\* C39 as stated: presenting a refresh token whose stored row is revoked
\* fails with the reuse error and leaves every refresh token of that user
\* revoked; presenting a token with no stored row fails without revoking
\* anything.
C39_ReuseRevokesAll ==
    /\ [](RevokedPresented =>
            /\ authOut.kind = "refresh_token_reuse_detected"
            /\ AllRevoked(authOut.sub))
    /\ [](RowlessPresented => authOut.kind = "refresh_token_not_found")
    /\ [][RowlessWritesNothing]_vars

\* C39, amended: presenting a refresh token that still verifies (its JWT
\* has not expired) and whose stored row is revoked fails with the reuse
\* error and leaves every refresh token of that user revoked, the
\* successor of a rotated token included; presenting a token with no
\* stored row fails without revoking anything.
C39_VerifiedReuseRevokesAll ==
    /\ []((RevokedPresented /\ authOut.verified) =>
            /\ authOut.kind = "refresh_token_reuse_detected"
            /\ AllRevoked(authOut.sub))
    /\ []((RevokedPresented /\ ~authOut.verified) =>
            authOut.kind = "invalid_refresh_token")
    /\ [](RowlessPresented => authOut.kind = "refresh_token_not_found")
    /\ [][RowlessWritesNothing]_vars

\* a rotated token was presented again: the reuse was detected and the
\* successor signed by the rotation is revoked with it
C39_Witness ==
    /\ RevokedPresented
    /\ authOut.kind = "refresh_token_reuse_detected"
    /\ rotations[authOut.token] = 1
    /\ \E t \in TokenIds :
          /\ t > authOut.token
          /\ refresh_tokens[t].stored
          /\ refresh_tokens[t].user_id = authOut.sub
          /\ refresh_tokens[t].revoked

\* the callback of message m has ended, the consumer taking acknowledgements
Settled(m) == msgs[m].state = "done" /\ ~msgs[m].noAck

\* what the claim asks of an ended callback
AckedOrNacked(m) ==
    /\ msgs[m].outcome = "ok" =>
          (msgs[m].acks = 1 /\ msgs[m].nacks = 0)
    /\ msgs[m].outcome \in {"threw", "unparsable"} =>
          (msgs[m].nacks = 1 /\ msgs[m].acks = 0 /\ ~msgs[m].requeued)

\* a failed message does not keep the next one from being delivered
NextStillDelivered ==
    \A m \in MsgIds :
        (/\ Settled(m)
         /\ msgs[m].outcome \in {"threw", "unparsable"}
         /\ channel # NULL
         /\ Unsettled = {}
         /\ m + 1 \in MsgIds
         /\ msgs[m + 1].state = "queued") => ENABLED Deliver(m + 1)

====
